---------------------------- MODULE Spec2Model ----------------------------
(***************************************************************************)
(* A model of xcube-cci: the virtual Zarr store over the ESA CCI Open Data *)
(* Portal (chunkstore.py), the granule index and the OPeNDAP chunk fetch   *)
(* (cciodp.py), the time-range planner and the chunk planner.              *)
(*                                                                         *)
(* Several specifications share the module.  Each one drives one component *)
(* and leaves the variables of the others at their initial values:         *)
(*   Spec        the store: key lookups, chunk reads, observers, writes    *)
(*   SpecIndex   the granule index (_get_feature_list)                     *)
(*   SpecPlan    the time-range planner and the time / time_bnds arrays    *)
(*   SpecChunks  the chunk planner (_adjust_chunk_sizes)                   *)
(*   SpecSlices  the hyperslab of a chunk                                  *)
(*   SpecBbox    the bbox trimming of the lat / lon coordinates            *)
(*   SpecInstall the variables and coordinates a store is built of         *)
(*   SpecGet     one GET with its retries (get_response)                   *)
(*   SpecOpen    the time ranges of a dataset that is opened               *)
(*   SpecCatalog the dataset names, the data sources and search            *)
(*   SpecMetadata the records of the datasets and their metadata           *)
(*   SpecPager   the paginated OpenSearch query; SpecPagerFair adds the    *)
(*               fairness of the responses and of the event loop           *)
(***************************************************************************)
EXTENDS Integers, Sequences, FiniteSets, TLC

VARIABLES
    \* ---- the store (RemoteChunkStore / CciChunkStore) ----
    vfs,                \* _vfs: key -> static bytes or lazy handle
    ranges_to_indexes,  \* _ranges_to_indexes: chunk range -> pending chunk indexes
    num_not_in_vfs,     \* _num_data_var_chunks_not_in_vfs
    observers,          \* _observers
    pc,                 \* where the __getitem__ call in progress stands
    cur,                \* the locals of the _fetch_chunk call in progress
    calls,              \* the observer calls made by the store call last started
    ret,                \* what the last completed store call returned or raised
    \* ---- the granule index (CciOdp._features of one dataset) ----
    features,           \* _features[ds_id]: list of <<start, end, url>>
    server,             \* the OpenSearch catalogue of the dataset and its date filter
    queries,            \* number of queries issued so far
    answer,             \* the last query and what it returned
    \* ---- the time-range planner / time arrays ----
    plan,
    \* ---- the chunk planner ----
    chunking,
    \* ---- the hyperslab of a chunk ----
    slab,
    \* ---- bbox trimming ----
    trim,
    \* ---- the variables and coordinates of a dataset ----
    install,            \* what __init__ or _fetch_variable_infos last made of its input
    described,          \* what dataaccess last made of a data id
    \* ---- the ODP client (CciOdp) ----
    http,               \* the get_response call in progress or last made
    opening,            \* the opening of a dataset in progress or last made
    catalog,            \* the description document, the two clients and their last call
    pager               \* the paginated OpenSearch query in progress or last made

storeVars == <<vfs, ranges_to_indexes, num_not_in_vfs, observers, pc, cur, calls, ret>>
indexVars == <<features, server, queries, answer>>
clientVars == <<http, opening, catalog, pager>>
vars == <<storeVars, indexVars, plan, chunking, slab, trim, install, described, clientVars>>

-----------------------------------------------------------------------------
(* Python helpers used by several components.                              *)

\* math.prod / np.prod of a list (1 for the empty list)
RECURSIVE Prod(_)
Prod(s) == IF s = <<>> THEN 1 ELSE Head(s) * Prod(Tail(s))

Min(a, b) == IF a < b THEN a ELSE b

Max(a, b) == IF a > b THEN a ELSE b

\* the list s[lo:hi] of Python (0-based, hi exclusive), for 0 <= lo
Slice(s, lo, hi) ==
    LET h == Min(hi, Len(s))
    IN  IF lo >= h THEN <<>> ELSE [i \in 1..(h - lo) |-> s[lo + i]]

\* s[::-1]
Reversed(s) == [i \in 1..Len(s) |-> s[Len(s) + 1 - i]]

\* bisect.bisect_left(a, x, lo, hi): the binary search itself, so that its
\* answer on a list that is not sorted is the one Python gives
RECURSIVE BisectLeftFrom(_, _, _, _)
BisectLeftFrom(a, x, lo, hi) ==
    IF lo >= hi THEN lo
    ELSE LET mid == (lo + hi) \div 2
         IN  IF a[mid + 1] < x THEN BisectLeftFrom(a, x, mid + 1, hi)
                               ELSE BisectLeftFrom(a, x, lo, mid)

BisectLeft(a, x) == BisectLeftFrom(a, x, 0, Len(a))

\* bisect.bisect_right(a, x, lo, hi)
RECURSIVE BisectRightFrom(_, _, _, _)
BisectRightFrom(a, x, lo, hi) ==
    IF lo >= hi THEN lo
    ELSE LET mid == (lo + hi) \div 2
         IN  IF x < a[mid + 1] THEN BisectRightFrom(a, x, lo, mid)
                               ELSE BisectRightFrom(a, x, mid + 1, hi)

BisectRight(a, x) == BisectRightFrom(a, x, 0, Len(a))

\* list.remove(x): drops the first occurrence of x
RECURSIVE RemoveFirst(_, _)
RemoveFirst(s, x) ==
    IF s = <<>> THEN <<>>
    ELSE IF Head(s) = x THEN Tail(s)
    ELSE <<Head(s)>> \o RemoveFirst(Tail(s), x)

InSeq(x, s) == \E i \in 1..Len(s) : s[i] = x

-----------------------------------------------------------------------------
(* The chunk planner: RemoteChunkStore._adjust_chunk_sizes and             *)
(* _get_best_chunks.  Lists are 1-based here, Python indexes are 0-based:  *)
(* the Python index i is the position i + 1.                               *)

\* the budget of elements per chunk
MaxChunkElements == 1000000

\* list(range(chunk, size + 1, chunk))
MultiplesUpTo(chunk, size) == [k \in 1..(size \div chunk) |-> k * chunk]

\* every multiple of chunk up to size, dividing it or not
EveryMultiple(chunk, size) == [k \in 1..(size \div chunk) |-> k * chunk]

\* SelectSeq with the divisibility test of the planner
DividingMultiples(chunk, size) ==
    LET Divides(r) == size % r = 0
    IN  SelectSeq(MultiplesUpTo(chunk, size), Divides)

\* one entry of valid_chunk_sizes: the chunk sizes tried on axis i (0-based)
ValidChunkSizes(chunks, sizes, time_dimension, i) ==
    LET chunk == chunks[i + 1]
        size  == sizes[i + 1]
    IN  IF i = time_dimension THEN <<chunk>>
        ELSE IF size % chunk > 0
             THEN IF (Prod(chunks) \div chunk) * size < MaxChunkElements
                  THEN <<size>>
                  ELSE MultiplesUpTo(chunk, size)
             ELSE DividingMultiples(chunk, size)

\* the largest of the entries of chunks from position i on, position masked
\* left out, and m
RECURSIVE MaxFrom(_, _, _, _)
MaxFrom(chunks, masked, i, m) ==
    IF i > Len(chunks) THEN m
    ELSE MaxFrom(chunks, masked, i + 1, IF i # masked /\ chunks[i] > m THEN chunks[i] ELSE m)

\* np.max(chunks, initial=0, where=where) with where[time_dimension] = False;
\* a time_dimension of -1 masks the last axis
MaxOutsideTime(chunks, time_dimension) ==
    LET masked == IF time_dimension >= 0 THEN time_dimension + 1
                  ELSE Len(chunks) + 1 + time_dimension
    IN  MaxFrom(chunks, masked, 1, 0)

\* a comparison that keeps the first of two chunkings of the same size
BetterChunksBySizeOnly(best, test, time_dimension) ==
    IF test.size > best.size THEN test ELSE best

\* the comparison at the end of the loop body of _get_best_chunks
BetterChunks(best, test, time_dimension) ==
    IF test.size > best.size THEN test
    ELSE IF test.size = best.size
            /\ MaxOutsideTime(best.chunks, time_dimension)
                 > MaxOutsideTime(test.chunks, time_dimension)
         THEN test
    ELSE best

\* _get_best_chunks from the j-th valid size of axis index on; best is the
\* pair (best_chunks, best_chunk_size)
RECURSIVE GetBestChunksFrom(_, _, _, _, _, _)
GetBestChunksFrom(chunks, valid_sizes, best, index, time_dimension, j) ==
    IF j > Len(valid_sizes[index + 1]) THEN best
    ELSE LET test_chunks == [chunks EXCEPT ![index + 1] = valid_sizes[index + 1][j]]
         IN  IF index < Len(chunks) - 1
             THEN LET test == GetBestChunksFrom(test_chunks, valid_sizes, best,
                                                index + 1, time_dimension, 1)
                  IN  GetBestChunksFrom(chunks, valid_sizes,
                                        BetterChunks(best, test, time_dimension),
                                        index, time_dimension, j + 1)
             ELSE IF Prod(test_chunks) > MaxChunkElements
                  THEN best   \* break
                  ELSE GetBestChunksFrom(chunks, valid_sizes,
                           BetterChunks(best,
                                        [chunks |-> test_chunks, size |-> Prod(test_chunks)],
                                        time_dimension),
                           index, time_dimension, j + 1)

GetBestChunks(chunks, valid_sizes, best_chunks, best_chunk_size, index, time_dimension) ==
    GetBestChunksFrom(chunks, valid_sizes,
                      [chunks |-> best_chunks, size |-> best_chunk_size],
                      index, time_dimension, 1)

\* list(l): the list as a tuple of its values
List(l) == SubSeq(l, 1, Len(l))

\* _adjust_chunk_sizes(chunks, sizes, time_dimension); time_dimension is the
\* 0-based position of the time axis, or -1
AdjustChunkSizes(chunk_list, size_list, time_dimension) ==
    LET chunks == List(chunk_list)
        sizes  == List(size_list)
        sum_sizes ==
            IF time_dimension >= 0
            THEN (Prod(sizes) \div sizes[time_dimension + 1]) * chunks[time_dimension + 1]
            ELSE Prod(sizes)
        valid_chunk_sizes ==
            [p \in 1..Len(chunks) |-> ValidChunkSizes(chunks, sizes, time_dimension, p - 1)]
    IN  IF time_dimension >= 0 /\ sum_sizes < MaxChunkElements
        THEN [sizes EXCEPT ![time_dimension + 1] = chunks[time_dimension + 1]]
        ELSE IF sum_sizes < MaxChunkElements THEN sizes
        ELSE GetBestChunks(chunks, valid_chunk_sizes, chunks, 0, 0, time_dimension).chunks

-----------------------------------------------------------------------------
(* The hyperslab of a chunk: CciChunkStore._get_dimension_indexes_for_chunk *)

\* slice(None, None, None) and slice(start, stop)
FullSlice == [full |-> TRUE, start |-> 0, stop |-> 0]

SliceOf(start, stop) == [full |-> FALSE, start |-> start, stop |-> stop]

\* dict.get(key, default)
GetOr(d, key, default) == IF key \in DOMAIN d THEN d[key] ELSE default

\* a slice that takes the chunk index of the axis at the same position even
\* when time was put in front of the axes
DimensionIndexUnshifted(var_dimensions, chunk_sizes, dimensions, chunk_offsets, chunk_index, i) ==
    LET var_dimension == var_dimensions[i + 1]
        data_offset   == GetOr(chunk_offsets, var_dimension, 0)
        start         == data_offset + chunk_index[i + 1] * chunk_sizes[i + 1]
        end           == Min(start + chunk_sizes[i + 1],
                             data_offset + GetOr(dimensions, var_dimension, -1))
    IN  IF var_dimension = "time" THEN FullSlice ELSE SliceOf(start, end)

\* the slice of the i-th (0-based) file dimension of a chunk
DimensionIndex(var_dimensions, chunk_sizes, dimensions, chunk_offsets, chunk_index, i) ==
    LET var_dimension == var_dimensions[i + 1]
        offset        == IF Len(chunk_index) > Len(chunk_sizes) THEN 1 ELSE 0
        data_offset   == GetOr(chunk_offsets, var_dimension, 0)
        start         == data_offset + chunk_index[i + offset + 1] * chunk_sizes[i + 1]
        end           == Min(start + chunk_sizes[i + 1],
                             data_offset + GetOr(dimensions, var_dimension, -1))
    IN  IF var_dimension = "time" THEN FullSlice ELSE SliceOf(start, end)

\* _get_dimension_indexes_for_chunk, given the variable's file_dimensions and
\* file_chunk_sizes attributes, _dimensions and _dimension_chunk_offsets:
\* the tuple of slices, or the ValueError of a dimension of unknown size
GetDimensionIndexesForChunk(var_dimensions, chunk_sizes, dimensions, chunk_offsets, chunk_index) ==
    IF \E i \in 1..Len(var_dimensions) :
          var_dimensions[i] # "time" /\ GetOr(dimensions, var_dimensions[i], -1) < 0
    THEN [exc |-> "ValueError", slices |-> <<>>]
    ELSE [exc |-> "",
          slices |-> [p \in 1..Len(var_dimensions) |->
                        DimensionIndex(var_dimensions, chunk_sizes, dimensions,
                                       chunk_offsets, chunk_index, p - 1)]]

\* the 'file_dimensions' attribute of a variable: the dimensions the variable
\* has in the file, as the metadata lists them
FileDimensions(attr_dimensions) == attr_dimensions

\* the layout RemoteChunkStore.__init__ gives a variable: time is put first
\* when the variable has dimensions and none of them is time, each axis gets
\* its size, a file chunk size of -1 becomes the size, and the chunks are
\* planned.  attr_dimensions and attr_chunk_sizes are the variable's
\* 'dimensions' and 'chunk_sizes' attributes, coord_sizes the sizes of the
\* coordinates (time included) and of the other dimensions.
VarLayout(attr_dimensions, attr_chunk_sizes, file_dimensions, coord_sizes) ==
    LET insert     == Len(attr_dimensions) > 0
                      /\ \A i \in 1..Len(attr_dimensions) : attr_dimensions[i] # "time"
        dimensions == IF insert THEN <<"time">> \o attr_dimensions ELSE attr_dimensions
        chunks0    == IF insert THEN <<1>> \o attr_chunk_sizes ELSE attr_chunk_sizes
        sizes      == [i \in 1..Len(dimensions) |-> coord_sizes[dimensions[i]]]
        time_dimension ==
            IF \E i \in 1..Len(dimensions) : dimensions[i] = "time"
            THEN (CHOOSE i \in 1..Len(dimensions) : dimensions[i] = "time") - 1
            ELSE -1
        chunks1    == [i \in 1..Len(dimensions) |->
                         IF chunks0[i] = -1 THEN sizes[i] ELSE chunks0[i]]
        chunk_sizes == AdjustChunkSizes(chunks1, sizes, time_dimension)
    IN  [dimensions       |-> dimensions,
         shape            |-> sizes,
         time_index       |-> time_dimension,
         chunk_sizes      |-> chunk_sizes,
         file_dimensions  |-> file_dimensions,
         file_chunk_sizes |-> IF Len(file_dimensions) < Len(dimensions)
                              THEN Tail(chunk_sizes) ELSE chunk_sizes]

-----------------------------------------------------------------------------
(* The store.  A key is the list of its '/'-separated segments, a segment  *)
(* the list of its '.'-separated tokens: "sst/0.1" is <<<<"sst">>,         *)
(* <<"0", "1">>>> and ".zgroup" is <<<<"", "zgroup">>>>.                   *)

\* the number of time steps of the opened cube
NumTimes == 2

\* the most observers the model registers
MaxObservers == 2

\* the tokens int() accepts, with their values; any other token is a ValueError
IntTokens == ("0" :> 0) @@ ("1" :> 1) @@ ("2" :> 2) @@ ("3" :> 3) @@ ("00" :> 0)

\* str(n) of a chunk index
Str(n) == CHOOSE t \in DOMAIN IntTokens : IntTokens[t] = n /\ Len(t) = 1

\* '.'.join(map(str, index))
Filename(index) == [i \in 1..Len(index) |-> Str(index[i])]

NameKey(name) == << <<name>> >>

MetaKey(name, meta) == << <<name>>, <<"", meta>> >>

ChunkKey(name, chunk_index_part) == << <<name>>, chunk_index_part >>

\* self._time_ranges of the opened cube
TimeRanges == [i \in 1..NumTimes |-> <<10 * i, 10 * i + 10>>]

\* the sizes the variables' axes take: time from the time array, lat from
\* the (trimmed) coordinate
CoordSizes == ("time" :> NumTimes) @@ ("lat" :> 2)

\* self._dimensions and self._dimension_chunk_offsets (no bbox given)
StoreDimensions == ("lat" :> 2)

StoreChunkOffsets == [d \in {} |-> 0]

\* the data variables of the dataset, in the order of _variable_names, and
\* the attributes the metadata gives them
VariableNames == <<"sst", "ice", "aod">>

VariableInfos ==
    [sst |-> [dimensions |-> <<"time", "lat">>, chunk_sizes |-> <<1, 2>>, data_type |-> "float32"],
     ice |-> [dimensions |-> <<"lat">>,         chunk_sizes |-> <<2>>,    data_type |-> "int16"],
     aod |-> [dimensions |-> <<"time">>,        chunk_sizes |-> <<1>>,    data_type |-> "float32"]]


\* the layout of every data variable, as __init__ computes it once
Layouts ==
    [name \in DOMAIN VariableInfos |->
        VarLayout(VariableInfos[name].dimensions, VariableInfos[name].chunk_sizes,
                  FileDimensions(VariableInfos[name].dimensions), CoordSizes)]

Layout(name) == Layouts[name]

\* the arrays held as static bytes, with their number of dimensions
StaticArrays == ("time" :> 1) @@ ("time_bnds" :> 2) @@ ("lat" :> 1)

\* _add_remote_array: nums = shape // chunks; a range(n) is written n
Nums(shape, chunks) == [i \in 1..Len(shape) |-> shape[i] \div chunks[i]]

RangesOf(layout) == Nums(layout.shape, layout.chunk_sizes)

VarRanges == [name \in DOMAIN VariableInfos |-> RangesOf(Layout(name))]

VarNameToRanges(name) == VarRanges[name]

RemoteNames == {VariableNames[i] : i \in 1..Len(VariableNames)}

AllRanges == {VarNameToRanges(name) : name \in RemoteNames}

\* _ranges_to_var_names[ranges], in the order the arrays were added
RangesToVarNames(ranges) ==
    LET Has(name) == VarNameToRanges(name) = ranges
    IN  SelectSeq(VariableNames, Has)

\* itertools.product over the ranges, as a list: lexicographic, last axis fastest
RECURSIVE Product(_)
Product(ranges) ==
    IF ranges = <<>> THEN << <<>> >>
    ELSE LET rest == Product(Tail(ranges))
         IN  [p \in 1..(Head(ranges) * Len(rest)) |->
                <<(p - 1) \div Len(rest)>> \o rest[((p - 1) % Len(rest)) + 1]]

\* the values of the virtual file system
StaticBytes == [kind |-> "bytes", var |-> "", idx |-> <<>>]

Handle(var_name, chunk_indexes) == [kind |-> "handle", var |-> var_name, idx |-> chunk_indexes]

\* the keys _add_static_array writes for an array of ndim dimensions
StaticArrayKeys(name, ndim) ==
    {NameKey(name), MetaKey(name, "zarray"), MetaKey(name, "zattrs"),
     ChunkKey(name, [i \in 1..ndim |-> "0"])}

\* the keys _add_remote_array writes
RemoteArrayKeys(name) == {NameKey(name), MetaKey(name, "zarray"), MetaKey(name, "zattrs")}

GroupKeys == { << <<"", "zgroup">> >>, << <<"", "zattrs">> >> }

\* the keys of the store after construction
InitialKeys ==
    GroupKeys
    \cup UNION {StaticArrayKeys(name, StaticArrays[name]) : name \in DOMAIN StaticArrays}
    \cup UNION {RemoteArrayKeys(name) : name \in RemoteNames}

\* sum of np.prod(chunk_sizes) over the data variables
RECURSIVE SumChunkProducts(_)
SumChunkProducts(names) ==
    IF names = <<>> THEN 0
    ELSE Prod(Layout(Head(names)).chunk_sizes) + SumChunkProducts(Tail(names))

\* the keys the clients of the model ask for: keys of the store, chunk keys
\* in range and out of range, a chunk key that is not canonical, a key of an
\* unknown variable, a key without index and a key with two '/'
AskedKeys ==
    {<< <<"", "zgroup">> >>, MetaKey("sst", "zarray"), ChunkKey("time", <<"0">>)}
    \cup {ChunkKey("sst", Filename(<<t, 0>>)) : t \in 0..NumTimes}
    \cup {ChunkKey("aod", Filename(<<t>>)) : t \in 0..NumTimes}
    \cup {ChunkKey("ice", <<"0", "0">>), ChunkKey("sst", <<"00", "0">>),
          ChunkKey("foo", <<"0">>), ChunkKey("sst", <<"">>),
          << <<"sst">>, <<"0">>, <<"0">> >>}

ObserverIds == {"o1", "o2"}

\* what a store call returned or raised
NoValue == [kind |-> "none", elems |-> 0, placeholder |-> FALSE]

Returned(op, key, val) == [op |-> op, key |-> key, kind |-> "return", exc |-> "", val |-> val]

Raised(op, key, exc) == [op |-> op, key |-> key, kind |-> "raise", exc |-> exc, val |-> NoValue]

Running(op, key) == [op |-> op, key |-> key, kind |-> "running", exc |-> "", val |-> NoValue]

BoolValue(b) == [kind |-> IF b THEN "True" ELSE "False", elems |-> 0, placeholder |-> FALSE]

BytesValue == [kind |-> "bytes", elems |-> 0, placeholder |-> FALSE]

KeysValue == [kind |-> "keys", elems |-> 0, placeholder |-> FALSE]

\* the bytes of a chunk: its number of elements, and whether it was made
\* from a missing payload
ChunkValue(elems, placeholder) == [kind |-> "chunk", elems |-> elems, placeholder |-> placeholder]

\* no _fetch_chunk call in progress
NoCall == [key |-> <<>>, var |-> "", idx |-> <<>>, time_range |-> <<>>,
           duration |-> 0, exception |-> "", data |-> NoValue, i |-> 0]

\* _try_building_vfs_entry(key): the exception it raises, if any, and the
\* store it leaves
TryBuildingVfsEntry(key) ==
    LET same == [exc |-> "", vfs |-> vfs, r2i |-> ranges_to_indexes, num |-> num_not_in_vfs]
    IN  IF Len(key) < 2 THEN same
        ELSE IF Len(key) > 2 THEN [same EXCEPT !.exc = "ValueError"]
        ELSE LET name             == key[1][1]
                 chunk_index_part == key[2]
             IN  IF \E i \in 1..Len(chunk_index_part) : chunk_index_part[i] \notin DOMAIN IntTokens
                 THEN same
                 ELSE IF name \notin RemoteNames THEN [same EXCEPT !.exc = "KeyError"]
                 ELSE LET chunk_indexes == [i \in 1..Len(chunk_index_part) |->
                                               IntTokens[chunk_index_part[i]]]
                          ranges    == VarNameToRanges(name)
                          indexes   == ranges_to_indexes[ranges]
                          var_names == RangesToVarNames(ranges)
                          built     == {ChunkKey(var_names[j], chunk_index_part) :
                                            j \in 1..Len(var_names)}
                      IN  IF InSeq(chunk_indexes, indexes)
                          THEN [exc |-> "",
                                vfs |-> [k \in DOMAIN vfs \cup built |->
                                           IF k \in built THEN Handle(k[1][1], chunk_indexes)
                                           ELSE vfs[k]],
                                r2i |-> [ranges_to_indexes EXCEPT
                                           ![ranges] = RemoveFirst(indexes, chunk_indexes)],
                                num |-> num_not_in_vfs - Len(var_names)]
                          ELSE same

\* _build_missing_vfs_entries: a handle under the canonical key for every
\* pending index of every variable; nothing is taken off the pending lists
MissingEntries(name) ==
    LET indexes == ranges_to_indexes[VarNameToRanges(name)]
    IN  {<<ChunkKey(name, Filename(indexes[j])), Handle(name, indexes[j])>> :
            j \in 1..Len(indexes)}

BuildMissingVfsEntries ==
    LET entries == UNION {MissingEntries(name) : name \in RemoteNames}
        built   == {e[1] : e \in entries}
    IN  [k \in DOMAIN vfs \cup built |->
           IF k \in built THEN (CHOOSE e \in entries : e[1] = k)[2] ELSE vfs[k]]

\* CciOdp._get_data_chunk for a variable of the given dtype and a hyperslab
\* of elems elements.  url_found: the granule index has a granule for the
\* time range; dataset_ok: the .dds and .das were read; data_ok: the .dods
\* request was answered.  Returns None, raises, or returns the bytes of
\* np.array(data, dtype).flatten(): of the payload, or of the one NaN that
\* np.array(None, dtype) is for a float dtype (a TypeError for an integer one).
GetDataChunk(data_type, elems, url_found, dataset_ok, data_ok) ==
    IF ~url_found \/ ~dataset_ok THEN [exc |-> "", data |-> NoValue]
    ELSE IF data_ok THEN [exc |-> "", data |-> ChunkValue(elems, FALSE)]
    ELSE IF data_type \in {"float32", "float64"}
         THEN [exc |-> "", data |-> ChunkValue(1, TRUE)]
         ELSE [exc |-> "TypeError", data |-> NoValue]

\* CciChunkStore.fetch_chunk: the hyperslab, the request, and the KeyError
\* of an empty answer
FetchChunkResult(var_name, chunk_index, url_found, dataset_ok, data_ok) ==
    LET dim_indexes == GetDimensionIndexesForChunk(Layout(var_name).file_dimensions,
                           Layout(var_name).file_chunk_sizes, StoreDimensions,
                           StoreChunkOffsets, chunk_index)
        got == GetDataChunk(VariableInfos[var_name].data_type,
                            Prod(Layout(var_name).chunk_sizes),
                            url_found, dataset_ok, data_ok)
    IN  IF dim_indexes.exc # "" THEN [exc |-> dim_indexes.exc, data |-> NoValue]
        ELSE IF got.exc # "" THEN got
        ELSE IF got.data.kind = "none" \/ got.data.elems = 0
             THEN [exc |-> "KeyError", data |-> NoValue]
             ELSE got

\* the variables of the other components, which the store leaves alone
otherThanStore == <<indexVars, plan, chunking, slab, trim, install, described, clientVars>>

StoreUnchanged == UNCHANGED <<vfs, ranges_to_indexes, num_not_in_vfs>>

\* RemoteChunkStore.add_observer
AddObserver(observer) ==
    /\ pc = "idle"
    /\ Len(observers) < MaxObservers
    /\ observers' = Append(observers, observer)
    /\ ret' = Returned("add_observer", <<>>, NoValue)
    /\ calls' = <<>>
    /\ StoreUnchanged
    /\ UNCHANGED <<pc, cur, otherThanStore>>

\* RemoteChunkStore.__contains__
Contains(key) ==
    /\ pc = "idle"
    /\ LET b == TryBuildingVfsEntry(key)
       IN  IF key \in DOMAIN vfs
           THEN ret' = Returned("contains", key, BoolValue(TRUE)) /\ StoreUnchanged
           ELSE IF b.exc # ""
           THEN ret' = Raised("contains", key, b.exc) /\ StoreUnchanged
           ELSE /\ ret' = Returned("contains", key, BoolValue(key \in DOMAIN b.vfs))
                /\ vfs' = b.vfs
                /\ ranges_to_indexes' = b.r2i
                /\ num_not_in_vfs' = b.num
    /\ calls' = <<>>
    /\ UNCHANGED <<observers, pc, cur, otherThanStore>>

\* RemoteChunkStore.__getitem__ up to the start of _fetch_chunk: the lookup,
\* the lazy entry, and for a handle the time range of the chunk
GetItem(key) ==
    /\ pc = "idle"
    /\ calls' = <<>>
    /\ LET b     == IF key \in DOMAIN vfs
                    THEN [exc |-> "", vfs |-> vfs, r2i |-> ranges_to_indexes,
                          num |-> num_not_in_vfs]
                    ELSE TryBuildingVfsEntry(key)
           value == b.vfs[key]
       IN  IF b.exc # ""
           THEN /\ ret' = Raised("getitem", key, b.exc)
                /\ StoreUnchanged
                /\ UNCHANGED <<pc, cur>>
           ELSE /\ vfs' = b.vfs
                /\ ranges_to_indexes' = b.r2i
                /\ num_not_in_vfs' = b.num
                /\ IF key \notin DOMAIN b.vfs
                   THEN ret' = Raised("getitem", key, "KeyError") /\ UNCHANGED <<pc, cur>>
                   ELSE IF value.kind = "bytes"
                   THEN ret' = Returned("getitem", key, BytesValue) /\ UNCHANGED <<pc, cur>>
                   ELSE /\ ret' = Running("getitem", key)
                        /\ pc' = "fetch"
                        /\ cur' = [NoCall EXCEPT
                                     !.key = key, !.var = value.var, !.idx = value.idx,
                                     !.time_range =
                                        TimeRanges[value.idx[Layout(value.var).time_index + 1] + 1]]
    /\ UNCHANGED <<observers, otherThanStore>>

\* the durations a fetch is measured to take
Durations == {1, 2}

\* _fetch_chunk, the try block: fetch_chunk returns the data or raises
FetchChunk ==
    /\ pc = "fetch"
    /\ \E url_found \in BOOLEAN, dataset_ok \in BOOLEAN, data_ok \in BOOLEAN, duration \in Durations :
          LET r == FetchChunkResult(cur.var, cur.idx, url_found, dataset_ok, data_ok)
          IN  cur' = [cur EXCEPT !.exception = r.exc, !.data = r.data,
                                 !.duration = duration, !.i = 0]
    /\ pc' = "notify"
    /\ StoreUnchanged
    /\ UNCHANGED <<observers, calls, ret, otherThanStore>>

\* a loop over the observers that tells them of successes only
CallObserverOnSuccess ==
    /\ pc = "notify"
    /\ cur.i < Len(observers)
    /\ calls' = IF cur.exception # "" THEN calls
                ELSE Append(calls, [observer   |-> observers[cur.i + 1],
                                    var_name   |-> cur.var,
                                    chunk_index |-> cur.idx,
                                    time_range |-> cur.time_range,
                                    duration   |-> cur.duration,
                                    exception  |-> cur.exception])
    /\ cur' = [cur EXCEPT !.i = cur.i + 1]
    /\ StoreUnchanged
    /\ UNCHANGED <<observers, pc, ret, otherThanStore>>

\* _fetch_chunk, one turn of the loop over the observers
CallObserver ==
    /\ pc = "notify"
    /\ cur.i < Len(observers)
    /\ calls' = Append(calls, [observer   |-> observers[cur.i + 1],
                               var_name   |-> cur.var,
                               chunk_index |-> cur.idx,
                               time_range |-> cur.time_range,
                               duration   |-> cur.duration,
                               exception  |-> cur.exception])
    /\ cur' = [cur EXCEPT !.i = cur.i + 1]
    /\ StoreUnchanged
    /\ UNCHANGED <<observers, pc, ret, otherThanStore>>

\* a _fetch_chunk that keeps the bytes it returns under the key
FinishFetchCaching ==
    /\ pc = "notify"
    /\ cur.i >= Len(observers)
    /\ ret' = IF cur.exception # ""
              THEN Raised("getitem", cur.key, cur.exception)
              ELSE Returned("getitem", cur.key, cur.data)
    /\ pc' = "idle"
    /\ cur' = NoCall
    /\ vfs' = IF cur.exception # "" THEN vfs ELSE [vfs EXCEPT ![cur.key] = StaticBytes]
    /\ UNCHANGED <<ranges_to_indexes, num_not_in_vfs>>
    /\ UNCHANGED <<observers, calls, otherThanStore>>

\* _fetch_chunk, after the loop: re-raise the exception or return the data
FinishFetch ==
    /\ pc = "notify"
    /\ cur.i >= Len(observers)
    /\ ret' = IF cur.exception # ""
              THEN Raised("getitem", cur.key, cur.exception)
              ELSE Returned("getitem", cur.key, cur.data)
    /\ pc' = "idle"
    /\ cur' = NoCall
    /\ StoreUnchanged
    /\ UNCHANGED <<observers, calls, otherThanStore>>

\* a __setitem__ that stores the value instead of refusing it
SetItemStoring(key) ==
    /\ pc = "idle"
    /\ ret' = Returned("setitem", key, NoValue)
    /\ calls' = <<>>
    /\ vfs' = [k \in DOMAIN vfs \cup {key} |-> IF k = key THEN StaticBytes ELSE vfs[k]]
    /\ UNCHANGED <<ranges_to_indexes, num_not_in_vfs>>
    /\ UNCHANGED <<observers, pc, cur, otherThanStore>>

\* RemoteChunkStore.__setitem__
SetItem(key) ==
    /\ pc = "idle"
    /\ ret' = Raised("setitem", key, "TypeError")
    /\ StoreUnchanged
    /\ calls' = <<>>
    /\ UNCHANGED <<observers, pc, cur, otherThanStore>>

\* RemoteChunkStore.__delitem__
DelItem(key) ==
    /\ pc = "idle"
    /\ ret' = Raised("delitem", key, "TypeError")
    /\ StoreUnchanged
    /\ calls' = <<>>
    /\ UNCHANGED <<observers, pc, cur, otherThanStore>>

\* RemoteChunkStore.keys
Keys ==
    /\ pc = "idle"
    /\ vfs' = BuildMissingVfsEntries
    /\ ret' = Returned("keys", <<>>, KeysValue)
    /\ calls' = <<>>
    /\ UNCHANGED <<ranges_to_indexes, num_not_in_vfs, observers, pc, cur, otherThanStore>>

\* RemoteChunkStore.__iter__ builds the missing entries as keys does
\* and is not told apart from it

\* a listing returns the number of its entries, len(store) a number
CountValue(kind, n) == [kind |-> kind, elems |-> n, placeholder |-> FALSE]

\* RemoteChunkStore.listdir: the keys without '/' for the key '', written
\* <<>>, and else the keys one level below key
ListDir(key) ==
    /\ pc = "idle"
    /\ ret' = Returned("listdir", key,
                 CountValue("list",
                     Cardinality(IF key = <<>> THEN {k \in DOMAIN vfs : Len(k) = 1}
                                 ELSE {k \in DOMAIN vfs : Len(k) = 2 /\ k[1] = key[1]})))
    /\ calls' = <<>>
    /\ StoreUnchanged
    /\ UNCHANGED <<observers, pc, cur, otherThanStore>>

\* len(self._vfs.keys()) + self._num_data_var_chunks_not_in_vfs
StoreLen == Cardinality(DOMAIN vfs) + num_not_in_vfs

\* RemoteChunkStore.__len__
GetLen ==
    /\ pc = "idle"
    /\ ret' = Returned("len", <<>>, CountValue("int", StoreLen))
    /\ calls' = <<>>
    /\ StoreUnchanged
    /\ UNCHANGED <<observers, pc, cur, otherThanStore>>

\* the store after RemoteChunkStore.__init__, with or without an observer
StoreInit ==
    /\ vfs = [k \in InitialKeys |-> StaticBytes]
    /\ ranges_to_indexes = [ranges \in AllRanges |-> Product(ranges)]
    /\ num_not_in_vfs = SumChunkProducts(VariableNames)
    /\ observers \in {<<>>} \cup {<<o>> : o \in ObserverIds}
    /\ pc = "idle"
    /\ cur = NoCall
    /\ calls = <<>>
    /\ ret = Returned("init", <<>>, NoValue)

\* the store when another component is driven
StoreIdle ==
    /\ vfs = [k \in InitialKeys |-> StaticBytes]
    /\ ranges_to_indexes = [ranges \in AllRanges |-> Product(ranges)]
    /\ num_not_in_vfs = SumChunkProducts(VariableNames)
    /\ observers = <<>>
    /\ pc = "idle"
    /\ cur = NoCall
    /\ calls = <<>>
    /\ ret = Returned("init", <<>>, NoValue)

-----------------------------------------------------------------------------
(* The granule index of one dataset: CciOdp._get_feature_list.  Times are  *)
(* whole numbers; a granule is <<start, end, url>>.                        *)

\* the latest time of a granule or a query
MaxT == 3

\* the most granules the catalogue of the dataset holds
MaxGranules == 3

\* the most queries the model issues
MaxQueries == 2

\* the granules a catalogue may hold: they last 0 or 1, the url names them
GranulePool == {<<t, e, <<"url", t, e>>>> : t \in 0..MaxT, e \in 0..MaxT}

Granules == {g \in GranulePool : g[2] \in {g[1], g[1] + 1}}

\* the catalogues: lists of granules with different start times, in the
\* order the server answers in
RECURSIVE Catalogues(_)
Catalogues(n) ==
    IF n = 0 THEN {<<>>}
    ELSE LET shorter == Catalogues(n - 1)
         IN  shorter \cup {Append(c, g) : c \in {d \in shorter : Len(d) = n - 1}, g \in Granules}

DistinctCatalogues ==
    {c \in Catalogues(MaxGranules) : \A i, j \in 1..Len(c) : i # j => c[i][1] # c[j][1]}

\* the date filter of the search: the server returns the granules that lie
\* within the requested dates, or those that overlap them
ServerModes == {"within", "overlap"}

Matches(mode, g, start_date, end_date) ==
    IF mode = "within" THEN g[1] >= start_date /\ g[2] <= end_date
                       ELSE g[1] <= end_date /\ g[2] >= start_date

\* _fetch_opensearch_feature_list with _extract_times_and_opendap_url: the
\* granules found are appended to feature_list, in the order of the answer.
\* dated is FALSE for a request without startDate and endDate.
FetchFeatureList(feature_list, dated, start_date, end_date) ==
    LET Found(g) == ~dated \/ Matches(server.mode, g, start_date, end_date)
    IN  feature_list \o SelectSeq(server.catalogue, Found)

\* list.sort(key=lambda x: x[0]): a stable insertion sort by start time
RECURSIVE InsertByStart(_, _)
InsertByStart(sorted, g) ==
    IF sorted = <<>> THEN <<g>>
    ELSE IF g[1] < Head(sorted)[1] THEN <<g>> \o sorted
    ELSE <<Head(sorted)>> \o InsertByStart(Tail(sorted), g)

RECURSIVE SortByStart(_)
SortByStart(l) ==
    IF l = <<>> THEN <<>>
    ELSE InsertByStart(SortByStart(SubSeq(l, 1, Len(l) - 1)), l[Len(l)])

Starts(l) == [i \in 1..Len(l) |-> l[i][1]]

Ends(l) == [i \in 1..Len(l) |-> l[i][2]]

\* _get_feature_list: the index it leaves, the list it returns and the
\* number of calls of _fetch_opensearch_feature_list it makes
GetFeatureList(start_date, end_date) ==
    IF Len(features) = 0
    THEN LET dated == FetchFeatureList(<<>>, TRUE, start_date, end_date)
             all   == IF Len(dated) = 0
                      THEN SortByStart(FetchFeatureList(dated, FALSE, 0, 0))
                      ELSE dated
         IN  [features |-> all, result |-> all,
              requests |-> IF Len(dated) = 0 THEN 2 ELSE 1]
    ELSE LET lower  == start_date < features[1][1]
             list1  == IF lower
                       THEN SortByStart(FetchFeatureList(<<>>, TRUE, start_date, features[1][1]))
                       ELSE <<>>
             feats1 == IF lower THEN list1 \o features ELSE features
             upper  == end_date > feats1[Len(feats1)][2]
             list2  == IF upper
                       THEN SortByStart(FetchFeatureList(list1, TRUE,
                                                         feats1[Len(feats1)][2], end_date))
                       ELSE list1
             feats2 == IF upper THEN feats1 \o list2 ELSE feats1
             start  == BisectLeft(Starts(feats2), start_date)
             end    == BisectRight(Ends(feats2), end_date)
         IN  [features |-> feats2, result |-> Slice(feats2, start, end),
              requests |-> (IF lower THEN 1 ELSE 0) + (IF upper THEN 1 ELSE 0)]

\* one request for the granules between two dates; before holds the date
\* ranges of the requests made earlier
Query(start_date, end_date) ==
    /\ queries < MaxQueries
    /\ LET r == GetFeatureList(start_date, end_date)
       IN  /\ features' = r.features
           /\ answer' = [start_date |-> start_date, end_date |-> end_date,
                         first |-> Len(features) = 0, result |-> r.result,
                         requests |-> r.requests,
                         before |-> IF queries = 0 THEN {}
                                    ELSE answer.before
                                           \cup {<<answer.start_date, answer.end_date>>}]
    /\ queries' = queries + 1
    /\ UNCHANGED <<server, storeVars, install, described, plan, chunking, slab, trim, clientVars>>

NoAnswer == [start_date |-> 0, end_date |-> 0, first |-> FALSE, result |-> <<>>,
             requests |-> 0, before |-> {}]

\* a client with no index yet, over any catalogue and either date filter
IndexInit ==
    /\ features = <<>>
    /\ server \in [catalogue : DistinctCatalogues, mode : ServerModes]
    /\ queries = 0
    /\ answer = NoAnswer

IndexIdle ==
    /\ features = <<>>
    /\ server = [catalogue |-> <<>>, mode |-> "within"]
    /\ queries = 0
    /\ answer = NoAnswer

-----------------------------------------------------------------------------
(* The time-range planner (CciChunkStore.get_time_ranges) and the time and *)
(* time_bnds arrays of the cube.  A datetime is <<year, month, day,        *)
(* second of the day>>; a pd.Timestamp made of its "%Y-%m-%dT%H:%M:%S"     *)
(* string is the same four numbers.                                        *)

\* the number of calendar years the time ranges of the model span
NumYears == 2

\* the most windows a dataset without a regular period gets from its granules
MaxDataWindows == 2

\* the most days between the two ends of the time range of a daily dataset
MaxDaySpan == 60

Years == 2019..(2019 + NumYears - 1)

IsLeap(y) == (y % 4 = 0 /\ y % 100 # 0) \/ y % 400 = 0

DaysInMonth(y, m) ==
    IF m = 2 THEN (IF IsLeap(y) THEN 29 ELSE 28)
    ELSE IF m \in {4, 6, 9, 11} THEN 30 ELSE 31

\* datetime + relativedelta(days=1)
AddDay(t) ==
    IF t[3] < DaysInMonth(t[1], t[2]) THEN <<t[1], t[2], t[3] + 1, t[4]>>
    ELSE IF t[2] < 12 THEN <<t[1], t[2] + 1, 1, t[4]>>
    ELSE <<t[1] + 1, 1, 1, t[4]>>

\* datetime + relativedelta(months=+1): the day is cut to the month's length
AddMonth(t) ==
    LET y == IF t[2] = 12 THEN t[1] + 1 ELSE t[1]
        m == IF t[2] = 12 THEN 1 ELSE t[2] + 1
    IN  <<y, m, Min(t[3], DaysInMonth(y, m)), t[4]>>

\* datetime + relativedelta(years=1)
AddYear(t) == <<t[1] + 1, t[2], Min(t[3], DaysInMonth(t[1] + 1, t[2])), t[4]>>

AddDelta(t, delta) ==
    IF delta = "days" THEN AddDay(t)
    ELSE IF delta = "months" THEN AddMonth(t)
    ELSE AddYear(t)

\* datetime < datetime
Before(a, b) ==
    \/ a[1] < b[1]
    \/ a[1] = b[1] /\ a[2] < b[2]
    \/ a[1] = b[1] /\ a[2] = b[2] /\ a[3] < b[3]
    \/ a[1] = b[1] /\ a[2] = b[2] /\ a[3] = b[3] /\ a[4] < b[4]

\* the while loop of get_time_ranges
RECURSIVE RequestTimeRanges(_, _, _, _)
RequestTimeRanges(this, end_time, delta, request_time_ranges) ==
    IF Before(this, end_time)
    THEN RequestTimeRanges(AddDelta(this, delta), end_time, delta,
                           Append(request_time_ranges, <<this, AddDelta(this, delta)>>))
    ELSE request_time_ranges

\* the time periods get_time_ranges plans windows for
PlannedPeriods == {"day", "month", "mon", "year", "yr"}

\* a planner whose last year ends on its first day
GetTimeRangesShortYear(time_period, start_time, end_time) ==
    IF time_period = "day"
    THEN RequestTimeRanges(<<start_time[1], start_time[2], start_time[3], 0>>,
                           <<end_time[1], end_time[2], end_time[3], 86399>>, "days", <<>>)
    ELSE IF time_period \in {"month", "mon"}
    THEN RequestTimeRanges(<<start_time[1], start_time[2], 1, 0>>,
                           AddMonth(<<end_time[1], end_time[2], 1, 0>>), "months", <<>>)
    ELSE RequestTimeRanges(<<start_time[1], 1, 1, 0>>,
                           <<end_time[1], 1, 1, 0>>, "years", <<>>)

\* a planner that does not move the end of a monthly range to the next month
GetTimeRangesEndOfMonthKept(time_period, start_time, end_time) ==
    IF time_period = "day"
    THEN RequestTimeRanges(<<start_time[1], start_time[2], start_time[3], 0>>,
                           <<end_time[1], end_time[2], end_time[3], 86399>>, "days", <<>>)
    ELSE IF time_period \in {"month", "mon"}
    THEN RequestTimeRanges(<<start_time[1], start_time[2], 1, 0>>,
                           <<end_time[1], end_time[2], 1, 0>>, "months", <<>>)
    ELSE RequestTimeRanges(<<start_time[1], 1, 1, 0>>,
                           <<end_time[1], 12, 31, 0>>, "years", <<>>)

\* get_time_ranges for a dataset whose time period is day, month or year
GetTimeRanges(time_period, start_time, end_time) ==
    IF time_period = "day"
    THEN RequestTimeRanges(<<start_time[1], start_time[2], start_time[3], 0>>,
                           <<end_time[1], end_time[2], end_time[3], 86399>>, "days", <<>>)
    ELSE IF time_period \in {"month", "mon"}
    THEN RequestTimeRanges(<<start_time[1], start_time[2], 1, 0>>,
                           AddMonth(<<end_time[1], end_time[2], 1, 0>>), "months", <<>>)
    ELSE RequestTimeRanges(<<start_time[1], 1, 1, 0>>,
                           <<end_time[1], 12, 31, 0>>, "years", <<>>)

\* the days from 1970-01-01 to the date of a datetime
LeapYearsBefore(y) == (y - 1) \div 4 - (y - 1) \div 100 + (y - 1) \div 400

RECURSIVE DaysBeforeMonth(_, _)
DaysBeforeMonth(y, m) == IF m = 1 THEN 0 ELSE DaysBeforeMonth(y, m - 1) + DaysInMonth(y, m - 1)

EpochDays(t) ==
    365 * (t[1] - 1970) + LeapYearsBefore(t[1]) - LeapYearsBefore(1970)
    + DaysBeforeMonth(t[1], t[2]) + t[3] - 1

\* .astype('datetime64[s]').astype(np.int64) of a time without fraction
EpochSeconds(t) == EpochDays(t) * 86400 + t[4]

\* a middle of the window that is its start
MidTimeAtStart(s, e) == EpochSeconds(s)

\* s + 0.5 * (e - s), a datetime with microseconds, cut to whole seconds by
\* datetime64[s]
MidTime(s, e) ==
    LET span              == EpochSeconds(e) - EpochSeconds(s)
        half_seconds      == span \div 2
        half_microseconds == (span % 2) * 500000
    IN  EpochSeconds(s) + half_seconds + half_microseconds \div 1000000

\* t_array and t_bnds_array of __init__
TimeArray(time_ranges) ==
    [i \in 1..Len(time_ranges) |-> MidTime(time_ranges[i][1], time_ranges[i][2])]

TimeBndsArray(time_ranges) ==
    [i \in 1..Len(time_ranges) |->
        <<EpochSeconds(time_ranges[i][1]), EpochSeconds(time_ranges[i][2])>>]

\* the cube_params['time_range'] values of the model: days at the ends of
\* months and years, at the first and the last second of the day
TimeInputs ==
    {<<y, md[1], md[2], sod>> :
        y \in Years,
        md \in {<<1, 1>>, <<2, 28>>, <<3, 1>>, <<12, 31>>},
        sod \in {0, 86399}}
    \cup {<<y, 2, DaysInMonth(y, 2), 0>> : y \in Years}

\* the granule times of a dataset without a regular period
DataTimes == {<<y, 12, 31, sod>> : y \in Years, sod \in {0, 1, 86399}}

DataWindows == {w \in DataTimes \X DataTimes : ~Before(w[2], w[1])}

RECURSIVE DataRanges(_)
DataRanges(n) ==
    IF n = 0 THEN {<<>>}
    ELSE LET shorter == DataRanges(n - 1)
         IN  shorter \cup {Append(r, w) : r \in {q \in shorter : Len(q) = n - 1}, w \in DataWindows}

\* an __init__ that builds the time arrays of any list of time ranges
OpenedUnchecked(time_period, start_time, end_time, time_ranges) ==
    [time_period  |-> time_period,
     start_time   |-> start_time,
     end_time     |-> end_time,
     time_ranges  |-> time_ranges,
     exc          |-> "",
     t_array      |-> TimeArray(time_ranges),
     t_bnds_array |-> TimeBndsArray(time_ranges)]

\* RemoteChunkStore.__init__ up to the time arrays: the ValueError of an
\* empty list of time ranges, or the arrays
Opened(time_period, start_time, end_time, time_ranges) ==
    [time_period  |-> time_period,
     start_time   |-> start_time,
     end_time     |-> end_time,
     time_ranges  |-> time_ranges,
     exc          |-> IF Len(time_ranges) = 0 THEN "ValueError" ELSE "",
     t_array      |-> IF Len(time_ranges) = 0 THEN <<>> ELSE TimeArray(time_ranges),
     t_bnds_array |-> IF Len(time_ranges) = 0 THEN <<>> ELSE TimeBndsArray(time_ranges)]

NoPlan == Opened("", <<>>, <<>>, <<>>)

\* opening a dataset of a regular period with a time range
OpenPlanned(time_period, start_time, end_time) ==
    /\ plan = NoPlan
    /\ time_period = "day" => EpochDays(end_time) - EpochDays(start_time) <= MaxDaySpan
    /\ plan' = Opened(time_period, start_time, end_time,
                      GetTimeRanges(time_period, start_time, end_time))
    /\ UNCHANGED <<storeVars, install, described, indexVars, chunking, slab, trim, clientVars>>

\* opening a dataset of another period: the time ranges are those of the
\* granules get_time_ranges_from_data finds
OpenFromData(time_ranges) ==
    /\ plan = NoPlan
    /\ plan' = Opened("satellite-orbit-frequency", <<>>, <<>>, time_ranges)
    /\ UNCHANGED <<storeVars, install, described, indexVars, chunking, slab, trim, clientVars>>

\* no store has been opened yet
PlanInit == plan = NoPlan

-----------------------------------------------------------------------------
(* The chunk planner on the variables of a dataset: the axes of a variable *)
(* are the time axis and up to two others.                                 *)

\* the most time steps of the cube
MaxTimeSteps == 2

\* the <<size, file chunk>> pairs of an axis other than time
AxisPairs ==
    {<<3, 1>>, <<3, 2>>, <<3, 3>>,
     <<1000, 500>>, <<1000, 600>>, <<1000, 1000>>,
     <<1500, 500>>, <<1500, 600>>,
     <<3600, 600>>, <<3600, 1000>>, <<3600, 1200>>, <<3600, 3600>>}

\* the <<size, file chunk>> pairs of the time axis: the file holds one time
\* step per chunk, or all of them
TimePairs == UNION {{<<t, 1>>, <<t, t>>} : t \in 1..MaxTimeSteps}

\* the lists of one to three axes with the time axis at the 0-based
\* position time_dimension
AxisLists(time_dimension) ==
    LET others  == {<<>>} \cup {<<a>> : a \in AxisPairs} \cup (AxisPairs \X AxisPairs)
        fitting == {x \in others : Len(x) >= time_dimension}
    IN  {Slice(o, 0, time_dimension) \o <<tp>> \o Slice(o, time_dimension, Len(o)) :
            o \in fitting, tp \in TimePairs}

NoChunking == [chunks |-> <<>>, sizes |-> <<>>, time_dimension |-> -1,
               chunk_sizes |-> <<>>, planned |-> FALSE]

\* the call of _adjust_chunk_sizes in __init__ for a variable of these axes
PlanChunks(axes, time_dimension) ==
    /\ ~chunking.planned
    /\ LET sizes  == [i \in 1..Len(axes) |-> axes[i][1]]
           chunks == [i \in 1..Len(axes) |-> axes[i][2]]
       IN  chunking' = [chunks |-> chunks, sizes |-> sizes,
                        time_dimension |-> time_dimension,
                        chunk_sizes |-> AdjustChunkSizes(chunks, sizes, time_dimension),
                        planned |-> TRUE]
    /\ UNCHANGED <<storeVars, install, described, indexVars, plan, slab, trim, clientVars>>

\* the call for a variable without dimensions
PlanScalarChunks ==
    /\ ~chunking.planned
    /\ chunking' = [NoChunking EXCEPT !.chunk_sizes = AdjustChunkSizes(<<>>, <<>>, -1),
                                      !.planned = TRUE]
    /\ UNCHANGED <<storeVars, install, described, indexVars, plan, slab, trim, clientVars>>

ChunkingInit == chunking = NoChunking

-----------------------------------------------------------------------------
(* The hyperslab of a chunk, for variables over lat and lon that are big   *)
(* enough to be cut into chunks.                                           *)

\* the dimensions a variable has in the file
SlabFileDimensions ==
    {<<"lat">>, <<"lat", "lon">>, <<"time", "lat">>, <<"time", "lat", "lon">>,
     <<"lat", "lon", "time">>}

\* the <<size, file chunk>> pairs of lat and of lon, and the bbox offsets
SlabLatPairs == {<<3, 2>>, <<1000, 500>>, <<1000, 600>>}

SlabLonPairs == {<<3600, 1000>>, <<3600, 1200>>}

SlabOffsets == {0, 7}

\* ceil(size / chunk): the chunks that cover an axis
NumChunks(size, chunk) == (size + chunk - 1) \div chunk

\* the chunk indexes of a layout: one index per chunk that covers each axis
RECURSIVE ChunkIndexes(_, _)
ChunkIndexes(shape, chunk_sizes) ==
    IF shape = <<>> THEN {<<>>}
    ELSE {<<k>> \o rest : k \in 0..(NumChunks(Head(shape), Head(chunk_sizes)) - 1),
                          rest \in ChunkIndexes(Tail(shape), Tail(chunk_sizes))}

NoSlab == [layout |-> <<>>, dimensions |-> <<>>, chunk_offsets |-> <<>>,
           chunk_index |-> <<>>, exc |-> "", slices |-> <<>>, done |-> FALSE]

\* one call of _get_dimension_indexes_for_chunk on a store opened with
\* num_times time steps and a bbox that cut lat and lon to these sizes
DimensionIndexes(file_dimensions, lat, lon, num_times, lat_offset, lon_offset) ==
    /\ ~slab.done
    /\ LET chunk_of   == ("time" :> 1) @@ ("lat" :> lat[2]) @@ ("lon" :> lon[2])
           sizes      == ("time" :> num_times) @@ ("lat" :> lat[1]) @@ ("lon" :> lon[1])
           dimensions == ("lat" :> lat[1]) @@ ("lon" :> lon[1])
           offsets    == ("lat" :> lat_offset) @@ ("lon" :> lon_offset)
           layout     == VarLayout(file_dimensions,
                                   [i \in 1..Len(file_dimensions) |-> chunk_of[file_dimensions[i]]],
                                   FileDimensions(file_dimensions), sizes)
       IN  \E chunk_index \in ChunkIndexes(layout.shape, layout.chunk_sizes) :
              LET r == GetDimensionIndexesForChunk(layout.file_dimensions,
                           layout.file_chunk_sizes, dimensions, offsets, chunk_index)
              IN  slab' = [layout |-> layout, dimensions |-> dimensions,
                           chunk_offsets |-> offsets, chunk_index |-> chunk_index,
                           exc |-> r.exc, slices |-> r.slices, done |-> TRUE]
    /\ UNCHANGED <<storeVars, install, described, indexVars, plan, chunking, trim, clientVars>>

SlabInit == slab = NoSlab

-----------------------------------------------------------------------------
(* The bbox of a cube: RemoteChunkStore.__init__ cuts the lat and the lon  *)
(* coordinate to the values inside bbox = (lon_min, lat_min, lon_max,      *)
(* lat_max).                                                               *)

\* the largest coordinate value and bbox bound; the smallest is 0
MaxCoord == 3

\* the most values of a coordinate
MaxCoordLen == 3

RECURSIVE CoordListsOfLen(_)
CoordListsOfLen(n) ==
    IF n = 0 THEN {<<>>}
    ELSE {Append(l, v) : l \in CoordListsOfLen(n - 1), v \in 0..MaxCoord}

\* the coordinates of a file: one value, or values that strictly ascend or
\* strictly descend
CoordLists ==
    {l \in UNION {CoordListsOfLen(n) : n \in 1..MaxCoordLen} :
        \/ \A i \in 1..(Len(l) - 1) : l[i] < l[i + 1]
        \/ \A i \in 1..(Len(l) - 1) : l[i] > l[i + 1]}

\* the offsets of the latitudes inside [lat_min, lat_max]
LatOffsets(coord_data, lat_min, lat_max) ==
    IF coord_data[1] < coord_data[Len(coord_data)]
    THEN [min_offset |-> BisectLeft(coord_data, lat_min),
          max_offset |-> BisectRight(coord_data, lat_max)]
    ELSE [min_offset |-> Len(coord_data) - BisectLeft(Reversed(coord_data), lat_max),
          max_offset |-> Len(coord_data) - BisectRight(Reversed(coord_data), lat_min)]

\* the offsets of the longitudes inside [lon_min, lon_max]
LonOffsets(coord_data, lon_min, lon_max) ==
    [min_offset |-> BisectLeft(coord_data, lon_min),
     max_offset |-> BisectRight(coord_data, lon_max)]

\* _adjust_coord_data: the offset kept for the hyperslabs, the cut data and
\* its size
AdjustCoordData(coord_data, offsets) ==
    LET data == Slice(coord_data, offsets.min_offset, offsets.max_offset)
    IN  [chunk_offset |-> offsets.min_offset, data |-> data, size |-> Len(data)]

NoTrim == [lat |-> <<>>, lon |-> <<>>, bbox |-> <<>>,
           lat_adjusted |-> AdjustCoordData(<<>>, [min_offset |-> 0, max_offset |-> 0]),
           lon_adjusted |-> AdjustCoordData(<<>>, [min_offset |-> 0, max_offset |-> 0]),
           done |-> FALSE]

\* the bboxes of the model: lon_min <= lon_max and lat_min <= lat_max
Bboxes ==
    {b \in (0..MaxCoord) \X (0..MaxCoord) \X (0..MaxCoord) \X (0..MaxCoord) :
        b[1] <= b[3] /\ b[2] <= b[4]}

\* the loop over the coordinates in __init__, for a dataset with the
\* coordinates lat and lon and a cube with a bbox
TrimToBbox ==
    /\ ~trim.done
    /\ \E lat \in CoordLists, lon \in CoordLists, bbox \in Bboxes :
          trim' = [lat |-> lat, lon |-> lon, bbox |-> bbox,
                   lat_adjusted |-> AdjustCoordData(lat, LatOffsets(lat, bbox[2], bbox[4])),
                   lon_adjusted |-> AdjustCoordData(lon, LonOffsets(lon, bbox[1], bbox[3])),
                   done |-> TRUE]
    /\ UNCHANGED <<storeVars, install, described, indexVars, plan, chunking, slab, clientVars>>

TrimInit == trim = NoTrim

-----------------------------------------------------------------------------
(* The variables and coordinates of a dataset: the dimensions              *)
(* _fetch_variable_infos derives from the variables of a file, and what    *)
(* RemoteChunkStore.__init__ makes of a coordinate and of a data variable. *)

\* the most variables of a file of which the dimensions are derived
MaxFileVars == 3

\* 512 * 512, the length from which on the values of a variable are not
\* fetched
MaxStaticSize == 512 * 512

\* the length of each axis of the files; a name is the list of its
\* '_'-separated parts
FileAxes ==
    (<<"time">> :> 1) @@ (<<"lat">> :> 2) @@ (<<"lon">> :> 3) @@ (<<"nv">> :> 2)
        @@ (<<"z">> :> 4) @@ (<<"bin", "index">> :> 5)

\* the variables a file may hold, with their dimensions; nv, z and bin_index
\* are dimensions without a variable of their name
FileVariables ==
    (<<"time">> :> << <<"time">> >>) @@ (<<"lat">> :> << <<"lat">> >>)
        @@ (<<"lon">> :> << <<"lon">> >>)
        @@ (<<"sst">> :> << <<"time">>, <<"lat">>, <<"lon">> >>)
        @@ (<<"lat", "bnds">> :> << <<"lat">>, <<"nv">> >>)
        @@ (<<"hist">> :> << <<"bin", "index">> >>)
        @@ (<<"profile">> :> << <<"time">>, <<"z">> >>)
        @@ (<<"count">> :> << <<"lat">>, <<"z">> >>)

\* dataset[key].size: the number of elements of a variable of the file
FileSize(name) == Prod([i \in 1..Len(FileVariables[name]) |-> FileAxes[FileVariables[name][i]]])

\* the files: lists of different variables, in the order of dataset.keys()
RECURSIVE Files(_)
Files(n) ==
    IF n = 0 THEN {<<>>}
    ELSE LET shorter == Files(n - 1)
         IN  shorter \cup {Append(f, v) : f \in {g \in shorter : Len(g) = n - 1},
                                          v \in DOMAIN FileVariables}

DistinctFiles ==
    {f \in Files(MaxFileVars) : \A i, j \in 1..Len(f) : i # j => f[i] # f[j]}

\* the body of the two loops of _fetch_variable_infos for the variable
\* variable_info and its dimension; variable_infos is the list of the names
\* of the variables
DimensionSize(variable_infos, variable_info, dimension) ==
    IF dimension = <<"bin", "index">> THEN FileSize(variable_info)
    ELSE IF ~InSeq(dimension, variable_infos) /\ variable_info[Len(variable_info)] = "bnds"
         THEN 2
    ELSE IF ~InSeq(dimension, variable_infos) /\ Len(FileVariables[variable_info]) > 0
         THEN FileSize(variable_info)
    ELSE FileSize(dimension)

\* the loops of _fetch_variable_infos from the d-th dimension of the v-th
\* variable on
RECURSIVE FetchVariableInfosFrom(_, _, _, _)
FetchVariableInfosFrom(variable_infos, dimensions, v, d) ==
    IF v > Len(variable_infos) THEN dimensions
    ELSE IF d > Len(FileVariables[variable_infos[v]])
         THEN FetchVariableInfosFrom(variable_infos, dimensions, v + 1, 1)
    ELSE LET dimension == FileVariables[variable_infos[v]][d]
         IN  FetchVariableInfosFrom(
                 variable_infos,
                 IF dimension \in DOMAIN dimensions THEN dimensions
                 ELSE dimensions @@ (dimension :> DimensionSize(variable_infos, variable_infos[v],
                                                                dimension)),
                 v, d + 1)

\* _fetch_variable_infos: the dimensions of the dataset
FetchVariableInfos(variable_infos) ==
    FetchVariableInfosFrom(variable_infos, [x \in {} |-> 0], 1, 1)

\* one entry of the result of _get_var_data for a coordinate of size
\* elements; read tells whether the values were read
VarData(size, read) ==
    [size |-> size, chunkSize |-> size,
     data |-> IF size < MaxStaticSize /\ read THEN size ELSE 0]

\* the branch of __init__ that adds a coordinate: a static array when it has
\* values, else a remote array of the shape list(shape or size); the list of
\* a number is a TypeError.  data is the number of values.
AddCoordinate(coord) ==
    IF coord.data > 0 THEN [exc |-> "", kind |-> "static", shape |-> <<coord.data>>]
    ELSE IF "shape" \in DOMAIN coord
         THEN [exc |-> "", kind |-> "remote", shape |-> coord.shape]
    ELSE [exc |-> "TypeError", kind |-> "", shape |-> <<>>]

\* the body of the loop over _variable_names in __init__ for a variable that
\* is not a coordinate: it becomes a remote array, or a global attribute,
\* or is left out
AddVariable(info, coord_sizes) ==
    LET layout == VarLayout(info.dimensions, info.chunk_sizes,
                            FileDimensions(info.dimensions), coord_sizes)
    IN  IF info.data_type = "bytes1024" /\ ~info.grid_mapping_name
        THEN IF Len(layout.dimensions) = 1 /\ layout.shape[1] < MaxStaticSize
             THEN [kind |-> "attribute", layout |-> layout]
             ELSE [kind |-> "omitted", layout |-> layout]
        ELSE [kind |-> "remote", layout |-> layout]

NoInstall == [op |-> "", input |-> <<>>, result |-> <<>>]

\* the dimensions of a dataset are derived from the variables of a file
DeriveDimensions(variable_infos) ==
    /\ install = NoInstall
    /\ install' = [op |-> "dimensions", input |-> variable_infos,
                   result |-> FetchVariableInfos(variable_infos)]
    /\ UNCHANGED <<storeVars, indexVars, plan, chunking, slab, trim, described, clientVars>>

\* __init__ comes to a coordinate other than time and time_bnds
InstallCoordinate(size, read) ==
    /\ install = NoInstall
    /\ install' = [op |-> "coordinate", input |-> VarData(size, read),
                   result |-> AddCoordinate(VarData(size, read))]
    /\ UNCHANGED <<storeVars, indexVars, plan, chunking, slab, trim, described, clientVars>>

\* __init__ comes to a data variable
InstallVariable(info, coord_sizes) ==
    /\ install = NoInstall
    /\ install' = [op |-> "variable", input |-> info @@ [sizes |-> coord_sizes],
                   result |-> AddVariable(info, coord_sizes)]
    /\ UNCHANGED <<storeVars, indexVars, plan, chunking, slab, trim, described, clientVars>>

InstallInit == install = NoInstall

-----------------------------------------------------------------------------
(* dataaccess._get_temporal_resolution_from_id.  A data id is the list of  *)
(* its '.'-separated components; the frequency component, which the code   *)
(* searches for substrings and splits at '-', is the list of its           *)
(* characters.  None is <<>>.                                              *)

\* sub in s for two strings
OccursIn(s, sub) ==
    \E k \in 0..(Len(s) - Len(sub)) : SubSeq(s, k + 1, k + Len(sub)) = sub

\* s.split("-")[0]
RECURSIVE BeforeHyphen(_)
BeforeHyphen(s) ==
    IF s = <<>> \/ Head(s) = "-" THEN <<>> ELSE <<Head(s)>> \o BeforeHyphen(Tail(s))

\* time_res_items, in the order of the dict: the pandas id and its list
time_res_items ==
    << [id |-> "D", ids |-> << <<"d","a","y","s">>, <<"d","a","y">> >>],
       [id |-> "M", ids |-> << <<"m","o","n","t","h","s">>, <<"m","o","n">>,
                               <<"c","l","i","m","a","t","o","l","o","g","y">> >>],
       [id |-> "Y", ids |-> << <<"y","r","s">>, <<"y","r">>, <<"y","e","a","r">> >>] >>

\* the two loops from entry k, id i on: the first id found in data_time_res
\* decides, by its place in its list
RECURSIVE ResolutionFrom(_, _, _)
ResolutionFrom(data_time_res, k, i) ==
    IF k > Len(time_res_items) THEN <<>>
    ELSE IF i > Len(time_res_items[k].ids) THEN ResolutionFrom(data_time_res, k + 1, 1)
    ELSE IF OccursIn(data_time_res, time_res_items[k].ids[i])
        THEN IF i = 1 THEN BeforeHyphen(data_time_res) \o <<time_res_items[k].id>>
             ELSE <<"1", time_res_items[k].id>>
    ELSE ResolutionFrom(data_time_res, k, i + 1)

_get_temporal_resolution_from_id(data_id) == ResolutionFrom(data_id[3], 1, 1)

\* the counts that precede the unit of a frequency, none included
Counts == {<<>>, <<"3">>, <<"5">>, <<"8">>, <<"1","3">>, <<"1","5">>}

\* the units of a frequency
Units ==
    { <<"d","a","y">>, <<"d","a","y","s">>, <<"m","o","n">>, <<"m","o","n","t","h">>,
      <<"m","o","n","t","h","s">>, <<"y","r">>, <<"y","r","s">>, <<"y","e","a","r">>,
      <<"c","l","i","m","a","t","o","l","o","g","y">>,
      <<"s","a","t","e","l","l","i","t","e","-","o","r","b","i","t","-",
        "f","r","e","q","u","e","n","c","y">>,
      <<"u","n","s","p","e","c","i","f","i","e","d">> }

Frequency(count, unit) == IF count = <<>> THEN unit ELSE count \o <<"-">> \o unit

NoDescribed == [data_id |-> <<>>, temporal_resolution |-> <<>>]

\* _get_temporal_resolution_from_id(data_id), as _get_data_descriptor_from_metadata
\* calls it
DescribeResolution(data_id) ==
    /\ described' = [data_id |-> data_id,
                     temporal_resolution |-> _get_temporal_resolution_from_id(data_id)]
    /\ UNCHANGED <<storeVars, install, indexVars, plan, chunking, slab, trim, clientVars>>

DescribedInit == described = NoDescribed

-----------------------------------------------------------------------------
(* CciOdp.get_response: one GET of a URL with its retries.                 *)

\* bound of the model: the largest num_retries
MaxRetries == 4

\* the retry parameters of the client, self._num_retries,
\* self._retry_backoff_max (ms) and self._retry_backoff_base; the base is
\* in thousandths
RetryParameters(num_retries) ==
    [num_retries |-> num_retries, retry_backoff_max |-> 40, retry_backoff_base |-> 1001]

\* client holds the retry parameters of the client, configured those it
\* had when the call began, retry_backoff_max the local of the call
NoGet == [pc |-> "idle", url |-> "", num_retries |-> 0, i |-> 0, log |-> <<>>,
          sleeps |-> 0, result |-> "", exc |-> "",
          client |-> RetryParameters(0), configured |-> RetryParameters(0),
          retry_backoff_max |-> 0]

\* get_response(session, url) up to the first pass of the loop:
\* range(num_retries) is empty for num_retries = 0 and None is returned
GetResponse(url, num_retries) ==
    /\ http.pc \in {"idle", "done"}
    /\ http' = [NoGet EXCEPT !.url = url, !.num_retries = num_retries,
                             !.client = RetryParameters(num_retries),
                             !.configured = RetryParameters(num_retries),
                             !.retry_backoff_max = RetryParameters(num_retries).retry_backoff_max,
                             !.pc = IF num_retries = 0 THEN "done" ELSE "request",
                             !.result = IF num_retries = 0 THEN "None" ELSE ""]
    /\ UNCHANGED <<storeVars, install, described, indexVars, plan, chunking, slab, trim, opening, catalog, pager>>

\* a pass of the loop that gives up on a server error
RequestGivingUpOn5xx(status) ==
    /\ http.pc = "request"
    /\ http' = [http EXCEPT !.log = Append(http.log, [url |-> http.url, status |-> status]),
                            !.i = http.i + 1, !.pc = "done",
                            !.result = IF status = 200 THEN "resp" ELSE "None"]
    /\ UNCHANGED <<storeVars, install, described, indexVars, plan, chunking, slab, trim, opening, catalog, pager>>

\* a pass of the loop that sleeps on a 429 and raises the ceiling of the
\* client for the calls to come
RequestRaisingCeiling(status) ==
    /\ http.pc = "request"
    /\ LET log  == Append(http.log, [url |-> http.url, status |-> status])
           sent == [http EXCEPT !.log = log, !.i = http.i + 1]
           last == http.i + 1 >= http.num_retries
       IN  http' =
             IF status = 200
             THEN [sent EXCEPT !.pc = "done", !.result = "resp"]
             ELSE IF (500 <= status /\ status < 600) \/ status = 429
             THEN LET next == IF status = 429
                              THEN [sent EXCEPT !.sleeps = @ + 1,
                                                !.client.retry_backoff_max =
                                                    (@ * http.client.retry_backoff_base) \div 1000 + 1]
                              ELSE sent
                  IN  IF last THEN [next EXCEPT !.pc = "done", !.result = "None"] ELSE next
             ELSE [sent EXCEPT !.pc = "done", !.result = "None"]
    /\ UNCHANGED <<storeVars, install, described, indexVars, plan, chunking, slab, trim, opening, catalog, pager>>

\* one pass of the loop: the request, the branch on resp.status, and the
\* end of the loop when the passes are used up.  sleeps counts the calls
\* of time.sleep.
Request(status) ==
    /\ http.pc = "request"
    /\ LET log  == Append(http.log, [url |-> http.url, status |-> status])
           sent == [http EXCEPT !.log = log, !.i = http.i + 1]
           last == http.i + 1 >= http.num_retries
       IN  http' =
             IF status = 200
             THEN [sent EXCEPT !.pc = "done", !.result = "resp"]
             ELSE IF 500 <= status /\ status < 600
             THEN IF last THEN [sent EXCEPT !.pc = "done", !.result = "None"] ELSE sent
             ELSE IF status = 429
             THEN \* response.headers is read of the local response, which is
                  \* still None: AttributeError, before time.sleep is reached
                  [sent EXCEPT !.pc = "done", !.exc = "AttributeError"]
             ELSE [sent EXCEPT !.pc = "done", !.result = "None"]
    /\ UNCHANGED <<storeVars, install, described, indexVars, plan, chunking, slab, trim, opening, catalog, pager>>

-----------------------------------------------------------------------------
(* Opening a dataset whose time ranges are those of its granules:          *)
(* CciChunkStore.get_time_ranges with get_default_time_range.  A date      *)
(* string is <<format, time>>: "datetime" for "%Y-%m-%dT%H:%M:%S", "date"  *)
(* for a string without the time of day.  A day has DayLen instants.       *)

\* bound of the model: the instants of a day
DayLen == 2

\* datetime.strptime(date_string, _TIMESTAMP_FORMAT)
Strptime(date_string) ==
    IF date_string[1] = "datetime" THEN [exc |-> "", value |-> date_string[2]]
    ELSE [exc |-> "ValueError", value |-> 0]

\* _extract_time_as_string and datetime.strftime(t, _TIMESTAMP_FORMAT)
Strftime(t) == <<"datetime", t>>

\* get_default_time_range: the temporal coverage of the metadata, or when
\* one is missing the first start and the last end of the granules that
\* get_time_ranges_from_data(ds_id, '1000-01-01', '3000-12-31') returns;
\* _get_feature_list first parses the two dates.  metadata is <<>> or
\* <<temporal_coverage_start, temporal_coverage_end>>.
GetDefaultTimeRange(metadata) ==
    IF metadata # <<>> THEN [exc |-> "", features |-> features, range |-> metadata]
    ELSE LET start_date == Strptime(<<"date", 0 - 1>>)
             end_date   == Strptime(<<"date", MaxT + 1>>)
         IN  IF start_date.exc # "" \/ end_date.exc # ""
             THEN [exc |-> "ValueError", features |-> features, range |-> <<>>]
             ELSE LET r == GetFeatureList(start_date.value, end_date.value)
                  IN  IF Len(r.result) = 0
                      THEN [exc |-> "ValueError", features |-> r.features, range |-> <<>>]
                      ELSE [exc |-> "", features |-> r.features,
                            range |-> <<Strftime(r.result[1][1]),
                                        Strftime(r.result[Len(r.result)][2])>>]

NoOpening == [pc |-> "idle", metadata |-> <<>>, time_range |-> <<>>, default |-> <<>>,
              request |-> <<>>, time_ranges |-> <<>>, exc |-> ""]

\* get_time_ranges up to the request for the granules: the default time
\* range is computed whether or not cube_params has a time_range, the time
\* range is parsed and its end moved to the last instant of its day.
\* time_range is <<>> or the <<start, end>> of cube_params.
OpenDataset(metadata, time_range) ==
    /\ opening.pc = "idle"
    /\ LET default == GetDefaultTimeRange(metadata)
           range   == IF time_range = <<>> THEN default.range ELSE time_range
           started == [NoOpening EXCEPT !.metadata = metadata, !.time_range = time_range,
                                        !.default = default.range]
       IN  /\ features' = default.features
           /\ opening' =
                 IF default.exc # "" THEN [started EXCEPT !.pc = "done", !.exc = default.exc]
                 ELSE [started EXCEPT
                         !.pc = "request",
                         !.request = <<Strptime(range[1]).value,
                                       (Strptime(range[2]).value \div DayLen) * DayLen
                                          + DayLen - 1>>]
    /\ UNCHANGED <<server, queries, answer, storeVars, install, described, plan, chunking, slab, trim, http, catalog, pager>>

\* get_time_ranges_from_data for the request, and the ValueError of
\* __init__ when it finds no granule
OpenTimeRanges ==
    /\ opening.pc = "request"
    /\ LET r == GetFeatureList(opening.request[1], opening.request[2])
       IN  /\ features' = r.features
           /\ opening' = [opening EXCEPT
                            !.pc = "done",
                            !.time_ranges = [i \in 1..Len(r.result) |->
                                               <<r.result[i][1], r.result[i][2]>>],
                            !.exc = IF Len(r.result) = 0 THEN "ValueError" ELSE ""]
    /\ UNCHANGED <<server, queries, answer, storeVars, install, described, plan, chunking, slab, trim, http, catalog, pager>>

-----------------------------------------------------------------------------
(* The catalogue of a client: CciOdp.dataset_names, _create_data_source,   *)
(* _ensure_in_data_sources and search.  A DRS id is the list of its        *)
(* '.'-separated components and a product version the list of its          *)
(* characters.  The server is read by two clients, one made with           *)
(* only_consider_cube_ready and one without.                               *)

\* the DRS ids the server knows, in the order of its description document
DrsIds ==
    << <<"esacci", "OC", "mon", "L3S", "K_490", "multi-sensor", "multi-platform",
         "MERGED", <<"1", "-", "0">>, "geographic">>,
       <<"esacci", "OC", "day", "L3S", "K_490", "multi-sensor", "multi-platform",
         "MERGED", <<"2", "-", "0">>, "geographic">>,
       <<"esacci", "SST", "mon", "L3S", "K_490", "multi-sensor", "multi-platform",
         "MERGED", <<"2", "-", "0">>, "geographic">>,
       <<"esacci", "SST", "5-days", "L3S", "K_490", "multi-sensor", "multi-platform",
         "MERGED", <<"1", "-", "0">>, "geographic">> >>

_convert_time_from_drs_id(time_value) ==
    CASE time_value = "mon" -> "month"
      [] time_value = "yr" -> "year"
      [] time_value = "5-days" -> "5 days"
      [] time_value = "8-days" -> "8 days"
      [] time_value = "15-days" -> "15 days"
      [] time_value = "13-yrs" -> "13 years"
      [] OTHER -> time_value

\* the loop over _excluded_data_sources: each excluded id that is in drs_ids
\* is removed from it
RECURSIVE RemoveExcluded(_, _)
RemoveExcluded(drs_ids, excluded) ==
    IF excluded = <<>> THEN drs_ids
    ELSE RemoveExcluded(IF InSeq(Head(excluded), drs_ids)
                            THEN RemoveFirst(drs_ids, Head(excluded))
                            ELSE drs_ids,
                        Tail(excluded))

\* _create_data_source of the collection datasource_id, whose DRS ids are
\* those of one ECV; data_sources is the list of the keys of _data_sources
CreateDataSource(data_sources, datasource_id, excluded) ==
    data_sources \o SelectSeq(RemoveExcluded(SelectSeq(DrsIds, LAMBDA d : d[2] = datasource_id),
                                             excluded),
                              LAMBDA d : ~InSeq(d, data_sources))

\* asyncio.gather of _create_data_source over the collections of a
\* catalogue, in the order in which their metadata arrive
RECURSIVE CreateDataSources(_, _, _)
CreateDataSources(data_sources, catalogue, excluded) ==
    IF catalogue = <<>> THEN data_sources
    ELSE CreateDataSources(CreateDataSource(data_sources, Head(catalogue), excluded),
                           Tail(catalogue), excluded)

\* _fetch_dataset_names: the description document odd carries 'drs_ids'
\* when it lists two ids or more
FetchDatasetNames(client, odd, catalogue) ==
    IF client.drs_ids # <<>> THEN [client EXCEPT !.names = client.drs_ids, !.named = TRUE]
    ELSE IF Len(odd) >= 2
        THEN [client EXCEPT !.drs_ids = RemoveExcluded(odd, client.excluded),
                            !.names = RemoveExcluded(odd, client.excluded),
                            !.named = TRUE]
    ELSE IF client.data_sources = <<>>
        THEN [client EXCEPT !.data_sources = CreateDataSources(<<>>, catalogue, client.excluded),
                            !.names = CreateDataSources(<<>>, catalogue, client.excluded),
                            !.named = TRUE]
    ELSE [client EXCEPT !.names = client.data_sources, !.named = TRUE]

\* the facet tests of search that compare the frequency with the raw token
FacetsMatchRawToken(dataset_name, ecv, frequency, product_version) ==
    /\ ~(ecv # "None" /\ ecv # dataset_name[2])
    /\ ~(frequency # "None" /\ frequency # dataset_name[3])
    /\ ~(product_version # <<>>
            /\ [i \in DOMAIN product_version |->
                   IF product_version[i] = "." THEN "-" ELSE product_version[i]]
               # dataset_name[9])

\* the facet tests of search on one dataset name; None is "None", and <<>>
\* for the version
FacetsMatch(dataset_name, ecv, frequency, product_version) ==
    /\ ~(ecv # "None" /\ ecv # dataset_name[2])
    /\ ~(frequency # "None" /\ frequency # _convert_time_from_drs_id(dataset_name[3]))
    /\ ~(product_version # <<>>
            /\ [i \in DOMAIN product_version |->
                   IF product_version[i] = "." THEN "-" ELSE product_version[i]]
               # dataset_name[9])

\* the client record: info holds the ids whose record in _data_sources has
\* 'dimensions', 'variable_infos' and 'attributes', fetched the ids for which
\* _fetch_variable_infos was called, again those for which it was called
\* more than once.  The call record: queried holds the ids the OpenSearch
\* service was asked for, exc the exception raised.
NoCatalog ==
    [odd |-> <<>>,
     clients |-> [k \in {"dataset", "cube"} |->
                    [excluded |-> <<>>, drs_ids |-> <<>>, data_sources |-> <<>>,
                     names |-> <<>>, named |-> FALSE,
                     info |-> {}, fetched |-> {}, again |-> {}]],
     call |-> [op |-> "", client |-> "", ecv |-> "", frequency |-> "",
               product_version |-> <<>>, result |-> <<>>, queried |-> <<>>, exc |-> ""]]

\* the dataset_names property
DatasetNames(k, catalogue) ==
    /\ catalog' = [catalog EXCEPT
          !.clients[k] = FetchDatasetNames(@, catalog.odd, catalogue),
          !.call = [NoCatalog.call EXCEPT !.op = "dataset_names", !.client = k,
                       !.result = FetchDatasetNames(catalog.clients[k], catalog.odd, catalogue).names]]
    /\ UNCHANGED <<storeVars, install, described, indexVars, plan, chunking, slab, trim, http, opening, pager>>

\* the DRS ids for which _create_data_source of the collection
\* datasource_id sets _data_sources[drs_id] to a new record
CreatedRecords(datasource_id, excluded) ==
    {d \in {DrsIds[i] : i \in 1..Len(DrsIds)} :
        InSeq(d, RemoveExcluded(SelectSeq(DrsIds, LAMBDA e : e[2] = datasource_id), excluded))}

\* _ensure_in_data_sources([dataset_name]) on a client: the server answers
\* the query drsId=dataset_name with the collection of the id, and the
\* records made of it take the place of those the client holds
EnsureInDataSourcesOf(client, dataset_name) ==
    IF InSeq(dataset_name, client.data_sources) THEN client
    ELSE [client EXCEPT
             !.data_sources = CreateDataSources(@, <<dataset_name[2]>>, client.excluded),
             !.info = @ \ CreatedRecords(dataset_name[2], client.excluded)]

\* _ensure_in_data_sources([dataset_name]), as _get_fid_for_dataset calls it
EnsureInDataSources(k, dataset_name) ==
    /\ catalog' = [catalog EXCEPT
          !.clients[k] = EnsureInDataSourcesOf(@, dataset_name),
          !.call = [NoCatalog.call EXCEPT !.op = "_ensure_in_data_sources", !.client = k,
                       !.result = <<dataset_name>>,
                       !.queried = IF InSeq(dataset_name, catalog.clients[k].data_sources)
                                       THEN <<>> ELSE <<dataset_name>>]]
    /\ UNCHANGED <<storeVars, install, described, indexVars, plan, chunking, slab, trim, http, opening, pager>>

\* search with the facets ecv, frequency and product_version and no other
Search(k, catalogue, ecv, frequency, product_version) ==
    LET all    == catalog.clients[k].data_sources = <<>> /\ ecv = "None"
                     /\ frequency = "None" /\ product_version = <<>>
        read   == IF all THEN [catalog.clients[k] EXCEPT !.data_sources =
                                  CreateDataSources(<<>>, catalogue, catalog.clients[k].excluded)]
                  ELSE catalog.clients[k]
        client == FetchDatasetNames(read, catalog.odd, catalogue)
    IN  /\ catalog' = [catalog EXCEPT
              !.clients[k] = client,
              !.call = [op |-> "search", client |-> k, ecv |-> ecv, frequency |-> frequency,
                        product_version |-> product_version, queried |-> <<>>, exc |-> "",
                        result |-> IF all THEN client.names
                                   ELSE SelectSeq(client.names,
                                            LAMBDA n : FacetsMatch(n, ecv, frequency, product_version))]]
        /\ UNCHANGED <<storeVars, install, described, indexVars, plan, chunking, slab, trim, http, opening, pager>>

\* _ensure_all_info_in_data_source: nothing when the record has its
\* dimensions, variable_infos and attributes, else _fetch_variable_infos
EnsureAllInfoInDataSource(client, dataset_name) ==
    IF dataset_name \in client.info THEN client
    ELSE [client EXCEPT !.info = @ \cup {dataset_name},
                        !.fetched = @ \cup {dataset_name},
                        !.again = IF dataset_name \in client.fetched
                                      THEN @ \cup {dataset_name} ELSE @]

\* get_dataset_metadata(dataset_id): _ensure_all_info_in_data_sources of the
\* one id, then the record is read; an id that has no record after
\* _ensure_in_data_sources raises KeyError
GetDatasetMetadata(k, dataset_id) ==
    LET known   == EnsureInDataSourcesOf(catalog.clients[k], dataset_id)
        present == InSeq(dataset_id, known.data_sources)
    IN  /\ catalog' = [catalog EXCEPT
              !.clients[k] = IF present THEN EnsureAllInfoInDataSource(known, dataset_id)
                             ELSE known,
              !.call = [NoCatalog.call EXCEPT
                           !.op = "get_dataset_metadata", !.client = k,
                           !.result = IF present THEN <<dataset_id>> ELSE <<>>,
                           !.queried = IF InSeq(dataset_id, catalog.clients[k].data_sources)
                                           THEN <<>> ELSE <<dataset_id>>,
                           !.exc = IF present THEN "" ELSE "KeyError"]]
        /\ UNCHANGED <<storeVars, install, described, indexVars, plan, chunking, slab, trim, http, opening, pager>>

-----------------------------------------------------------------------------
(* The paginator: CciOdp._fetch_opensearch_feature_list and                *)
(* _fetch_opensearch_feature_part_list.  The query has total features on   *)
(* the server; a page fetch is a task that is pending until it sends its   *)
(* request, then in flight until its response, a page or None, is there.   *)

MaxPages == 6

maximum_records == 10000

NoPager == [pc |-> "idle", total |-> 0, start_page |-> 0, num_results |-> 0,
            total_results |-> 0 - 1, pending |-> {}, in_flight |-> {},
            requested |-> <<>>, returned |-> {}, extended |-> {}, exc |-> ""]

\* the inner loop that takes one page too many when the total is a multiple
\* of the page size
BatchPagesToTotal(start_page, num_results, total_results) ==
    {start_page + j : j \in {i \in 1..4 : num_results + (i - 1) * maximum_records <= total_results}}

\* the inner loop that makes up to five tasks
BatchPagesOfFive(start_page, num_results, total_results) ==
    {start_page + j : j \in {i \in 1..5 : num_results + (i - 1) * maximum_records < total_results}}

\* the pages of the tasks that one pass of the outer loop makes: the inner
\* loop adds a task while there are fewer than 4 and num_results, which
\* grows by maximum_records with each task, is below total_results
BatchPages(start_page, num_results, total_results) ==
    {start_page + j : j \in {i \in 1..4 : num_results + (i - 1) * maximum_records < total_results}}

\* the call: page 1 is requested and awaited
FetchOpensearchFeatureList(total) ==
    /\ pager.pc \in {"idle", "done"}
    /\ pager' = [NoPager EXCEPT !.pc = "first", !.total = total, !.start_page = 1,
                                !.in_flight = {1}, !.requested = <<1>>]
    /\ UNCHANGED <<storeVars, install, described, indexVars, plan, chunking, slab, trim, http, opening, catalog>>

\* the response of page 1: its totalResults, or None when get_response
\* gave no response, and then the comparison with num_results raises
FirstPageArrives(resp) ==
    /\ pager.pc = "first"
    /\ pager' = IF resp
        THEN [pager EXCEPT !.in_flight = {}, !.returned = {1}, !.extended = {1},
                           !.total_results = pager.total,
                           !.num_results = maximum_records, !.pc = "loop"]
        ELSE [pager EXCEPT !.in_flight = {}, !.num_results = maximum_records,
                           !.pc = "done", !.exc = "TypeError"]
    /\ UNCHANGED <<storeVars, install, described, indexVars, plan, chunking, slab, trim, http, opening, catalog>>

\* one pass of the outer loop up to asyncio.gather, or the end of the loop
GatherTasks ==
    /\ pager.pc = "loop"
    /\ pager.pending = {} /\ pager.in_flight = {}
    /\ pager' = IF pager.num_results < pager.total_results
        THEN [pager EXCEPT
                !.pending = BatchPages(pager.start_page, pager.num_results, pager.total_results),
                !.start_page = @ + Cardinality(BatchPages(pager.start_page, pager.num_results,
                                                          pager.total_results)),
                !.num_results = @ + maximum_records *
                                    Cardinality(BatchPages(pager.start_page, pager.num_results,
                                                           pager.total_results))]
        ELSE [pager EXCEPT !.pc = "done"]
    /\ UNCHANGED <<storeVars, install, described, indexVars, plan, chunking, slab, trim, http, opening, catalog>>

\* the next task of the gather starts and sends its request
RequestPage ==
    /\ pager.pending # {}
    /\ LET start_page == CHOOSE p \in pager.pending : \A q \in pager.pending : p <= q
       IN  pager' = [pager EXCEPT !.pending = @ \ {start_page},
                                  !.in_flight = @ \cup {start_page},
                                  !.requested = Append(@, start_page)]
    /\ UNCHANGED <<storeVars, install, described, indexVars, plan, chunking, slab, trim, http, opening, catalog>>

\* the response of a later page: a page goes to the extender, None does not
PageArrives(start_page, resp) ==
    /\ pager.pc = "loop"
    /\ start_page \in pager.in_flight
    /\ pager' = [pager EXCEPT !.in_flight = @ \ {start_page},
                              !.returned = IF resp THEN @ \cup {start_page} ELSE @,
                              !.extended = IF resp THEN @ \cup {start_page} ELSE @]
    /\ UNCHANGED <<storeVars, install, described, indexVars, plan, chunking, slab, trim, http, opening, catalog>>

-----------------------------------------------------------------------------

\* the client when another component is driven
ClientIdle == http = NoGet /\ opening = NoOpening /\ catalog = NoCatalog /\ pager = NoPager

-----------------------------------------------------------------------------
(* The specifications.  Each drives one component from its initial state   *)
(* and keeps the others idle.                                              *)

\* the store: lookups, chunk reads, observers, writes
Init == StoreInit /\ IndexIdle /\ PlanInit /\ ChunkingInit /\ SlabInit /\ TrimInit /\ InstallInit /\ DescribedInit /\ ClientIdle

Next ==
    \/ \E observer \in ObserverIds : AddObserver(observer)
    \/ \E key \in AskedKeys : Contains(key)
    \/ \E key \in AskedKeys : GetItem(key)
    \/ FetchChunk
    \/ CallObserver
    \/ FinishFetch
    \/ \E key \in AskedKeys : SetItem(key)
    \/ \E key \in AskedKeys : DelItem(key)
    \/ Keys
    \/ \E key \in {<<>>, NameKey("sst")} : ListDir(key)
    \/ GetLen

Spec == Init /\ [][Next]_vars

\* the granule index
InitIndex == StoreIdle /\ IndexInit /\ PlanInit /\ ChunkingInit /\ SlabInit /\ TrimInit /\ InstallInit /\ DescribedInit /\ ClientIdle

NextIndex ==
    \E start_date \in 0..MaxT, end_date \in 0..MaxT :
        start_date <= end_date /\ Query(start_date, end_date)

SpecIndex == InitIndex /\ [][NextIndex]_vars

\* the time-range planner and the time arrays
InitPlan == StoreIdle /\ IndexIdle /\ PlanInit /\ ChunkingInit /\ SlabInit /\ TrimInit /\ InstallInit /\ DescribedInit /\ ClientIdle

NextPlan ==
    \/ \E time_period \in PlannedPeriods, start_time \in TimeInputs, end_time \in TimeInputs :
          OpenPlanned(time_period, start_time, end_time)
    \/ \E time_ranges \in DataRanges(MaxDataWindows) : OpenFromData(time_ranges)

SpecPlan == InitPlan /\ [][NextPlan]_vars

\* the chunk planner
InitChunks == StoreIdle /\ IndexIdle /\ PlanInit /\ ChunkingInit /\ SlabInit /\ TrimInit /\ InstallInit /\ DescribedInit /\ ClientIdle

NextChunks ==
    \/ \E time_dimension \in 0..2 : \E axes \in AxisLists(time_dimension) :
          PlanChunks(axes, time_dimension)
    \/ PlanScalarChunks

SpecChunks == InitChunks /\ [][NextChunks]_vars

\* the hyperslab of a chunk
InitSlices == StoreIdle /\ IndexIdle /\ PlanInit /\ ChunkingInit /\ SlabInit /\ TrimInit /\ InstallInit /\ DescribedInit /\ ClientIdle

NextSlices ==
    \E file_dimensions \in SlabFileDimensions, lat \in SlabLatPairs, lon \in SlabLonPairs,
       num_times \in 1..MaxTimeSteps, lat_offset \in SlabOffsets, lon_offset \in SlabOffsets :
        DimensionIndexes(file_dimensions, lat, lon, num_times, lat_offset, lon_offset)

SpecSlices == InitSlices /\ [][NextSlices]_vars

\* the bbox
InitBbox == StoreIdle /\ IndexIdle /\ PlanInit /\ ChunkingInit /\ SlabInit /\ TrimInit /\ InstallInit /\ DescribedInit /\ ClientIdle

NextBbox == TrimToBbox

SpecBbox == InitBbox /\ [][NextBbox]_vars

\* the variables and coordinates of a dataset
InitInstall == StoreIdle /\ IndexIdle /\ PlanInit /\ ChunkingInit /\ SlabInit /\ TrimInit /\ InstallInit /\ DescribedInit /\ ClientIdle

\* the attributes of the data variables, the sizes of the coordinates and
\* the coordinates the store is built of
InstalledDimensions ==
    {<<>>, <<"time">>, <<"lat">>, <<"time", "lat">>, <<"lat", "time">>, <<"lat", "lon">>,
     <<"time", "lat", "lon">>}

InstalledSizes ==
    {("time" :> t) @@ ("lat" :> 2) @@ ("lon" :> 3) : t \in {1, 2, MaxStaticSize}}

NextInstall ==
    \/ \E variable_infos \in DistinctFiles : DeriveDimensions(variable_infos)
    \/ \E size \in {2, MaxStaticSize - 1, MaxStaticSize}, read \in BOOLEAN :
          InstallCoordinate(size, read)
    \/ \E dimensions \in InstalledDimensions, file_chunks \in {-1, 1},
          data_type \in {"float32", "bytes1024"}, grid_mapping_name \in BOOLEAN,
          coord_sizes \in InstalledSizes :
          InstallVariable([dimensions |-> dimensions,
                           chunk_sizes |-> [i \in 1..Len(dimensions) |-> file_chunks],
                           data_type |-> data_type,
                           grid_mapping_name |-> grid_mapping_name],
                          coord_sizes)

SpecInstall == InitInstall /\ [][NextInstall]_vars

\* one GET with its retries
InitDescribe == StoreIdle /\ IndexIdle /\ PlanInit /\ ChunkingInit /\ SlabInit /\ TrimInit /\ InstallInit /\ DescribedInit /\ ClientIdle

NextDescribe ==
    \E ecv \in {"OZONE", "SST"}, level \in {"L3", "L4"}, count \in Counts, unit \in Units :
        DescribeResolution(<<"esacci", ecv, Frequency(count, unit), level>>)

SpecDescribe == InitDescribe /\ [][NextDescribe]_vars

InitGet == StoreIdle /\ IndexIdle /\ PlanInit /\ ChunkingInit /\ SlabInit /\ TrimInit /\ InstallInit /\ DescribedInit /\ ClientIdle

NextGet ==
    \/ \E url \in {"dds", "dods"}, num_retries \in 0..MaxRetries :
          GetResponse(url, num_retries)
    \/ \E status \in {200, 404, 429, 500, 503} : Request(status)

SpecGet == InitGet /\ [][NextGet]_vars

\* opening a dataset over any catalogue, with or without temporal coverage
\* in the metadata and with or without a time range
InitOpen == StoreIdle /\ IndexInit /\ PlanInit /\ ChunkingInit /\ SlabInit /\ TrimInit /\ InstallInit /\ DescribedInit /\ ClientIdle

NextOpen ==
    \/ \E metadata \in {<<>>} \cup {<<Strftime(0), Strftime(t)>> : t \in 0..MaxT},
          time_range \in {<<>>} \cup {<<Strftime(t0), Strftime(t1)>> : t0 \in 0..MaxT, t1 \in 0..MaxT} :
          OpenDataset(metadata, time_range)
    \/ OpenTimeRanges

SpecOpen == InitOpen /\ [][NextOpen]_vars

-----------------------------------------------------------------------------
(* Properties of the store.                                                *)

\* C1: a __setitem__ or __delitem__ on any key raises the read-only error
\* (a TypeError) and leaves the key set and values of the store, the pending
\* chunk indexes and the chunk counter as they were.
C1_WritesRaiseAndChangeNothing ==
    [][ret'.op \in {"setitem", "delitem"}
         => /\ ret'.kind = "raise"
            /\ ret'.exc = "TypeError"
            /\ vfs' = vfs
            /\ ranges_to_indexes' = ranges_to_indexes
            /\ num_not_in_vfs' = num_not_in_vfs]_vars

\* a __delitem__ was refused on the key of a chunk that a lookup had made
\* part of the store, some chunks still pending
C1_Witness ==
    /\ ret.op = "delitem"
    /\ ret.kind = "raise"
    /\ ret.key \in DOMAIN vfs
    /\ vfs[ret.key].kind = "handle"
    /\ \E ranges \in DOMAIN ranges_to_indexes : Len(ranges_to_indexes[ranges]) > 0

\* C2: a read of a data chunk either returns the complete buffer of the
\* chunk (all its elements, read from the payload) or raises; it never
\* returns a short buffer or a placeholder.
C2_ChunkReadIsCompleteOrRaises ==
    (pc = "idle" /\ ret.op = "getitem" /\ ret.kind = "return" /\ ret.val.kind = "chunk")
        => /\ ret.val.elems = Prod(Layout(vfs[ret.key].var).chunk_sizes)
           /\ ~ret.val.placeholder

\* C3: when a chunk read returns or re-raises, every registered observer has
\* been called exactly once, in order of registration, with the variable
\* name, the chunk index, the time range of the chunk, the measured duration
\* and the exception of the fetch (none if it succeeded).
C3_ObserversNotifiedOnce ==
    [][(ret.kind = "running" /\ ret'.kind # "running")
         => LET h == vfs[ret.key]
            IN  /\ calls' = calls
                /\ Len(calls) = Len(observers)
                /\ \A i \in 1..Len(observers) :
                      calls[i] = [observer    |-> observers[i],
                                  var_name    |-> h.var,
                                  chunk_index |-> h.idx,
                                  time_range  |-> TimeRanges[h.idx[Layout(h.var).time_index + 1] + 1],
                                  duration    |-> cur.duration,
                                  exception   |-> IF ret'.kind = "raise" THEN ret'.exc ELSE ""]
                /\ ret'.op = "getitem" /\ ret'.key = ret.key
                /\ ret'.kind \in {"raise", "return"}]_vars

\* a chunk read failed with two different observers registered, and both
\* were told of the KeyError before it was raised
C3_Witness ==
    /\ pc = "idle"
    /\ ret.op = "getitem"
    /\ ret.kind = "raise"
    /\ ret.exc = "KeyError"
    /\ Len(calls) = 2
    /\ calls[1].observer # calls[2].observer
    /\ calls[1].exception = "KeyError"
    /\ calls[2].exception = "KeyError"

-----------------------------------------------------------------------------
(* Properties of the granule index.                                        *)

\* C4: after every query the granule index is sorted by start time,
\* strictly increasing.
C4_IndexSortedByStart ==
    \A i, j \in 1..Len(features) : i < j => features[i][1] < features[j][1]

\* C5: a query for [t0, t1] returns exactly the granules of the index that
\* start at t0 or later and end at t1 or earlier, on the first query of a
\* dataset (the retry without dates included) and on every later one.
C5_QueryReturnsGranulesInside ==
    queries > 0
        => {answer.result[i] : i \in 1..Len(answer.result)}
             = {features[i] : i \in {k \in 1..Len(features) :
                                        /\ features[k][1] >= answer.start_date
                                        /\ features[k][2] <= answer.end_date}}

-----------------------------------------------------------------------------
(* Properties of the time-range planner and of the time arrays.            *)

\* the number of the calendar unit a datetime lies in
UnitIndex(time_period, t) ==
    IF time_period = "day" THEN EpochDays(t)
    ELSE IF time_period \in {"month", "mon"} THEN 12 * t[1] + t[2] - 1
    ELSE t[1]

\* a datetime at the start of its calendar unit
UnitStart(time_period, t) ==
    /\ t[4] = 0
    /\ time_period \in {"month", "mon", "year", "yr"} => t[3] = 1
    /\ time_period \in {"year", "yr"} => t[2] = 1

C7_TimeIsExactMiddle ==
    plan.exc = ""
        => /\ Len(plan.t_array) = Len(plan.time_ranges)
           /\ Len(plan.t_bnds_array) = Len(plan.time_ranges)
           /\ \A i \in 1..Len(plan.time_ranges) :
                 /\ Len(plan.t_bnds_array[i]) = 2
                 /\ plan.t_array[i] - plan.t_bnds_array[i][1]
                      = plan.t_bnds_array[i][2] - plan.t_array[i]

\* C7, amended: the time array has one element per window, time_bnds has
\* the shape (n, 2) and holds the bounds of the windows in seconds since
\* 1970-01-01, and time[i] is the middle (b0 + b1) / 2 rounded down to a
\* whole second: the exact middle for the windows of the planner, half a
\* second less for a window of an odd number of seconds.
C7_TimeIsMiddleInWholeSeconds ==
    (plan.exc = "" /\ plan.time_period # "")
        => /\ Len(plan.t_array) = Len(plan.time_ranges)
           /\ Len(plan.t_bnds_array) = Len(plan.time_ranges)
           /\ \A i \in 1..Len(plan.time_ranges) :
                 LET b0 == EpochSeconds(plan.time_ranges[i][1])
                     b1 == EpochSeconds(plan.time_ranges[i][2])
                     t  == plan.t_array[i]
                 IN  /\ plan.t_bnds_array[i] = <<b0, b1>>
                     /\ (b1 - t) - (t - b0) = (b1 - b0) % 2
                     /\ plan.time_period \in PlannedPeriods => t - b0 = b1 - t

\* a dataset was opened on granule windows of which one lasts an odd number
\* of seconds and one an even number
C7_Witness ==
    /\ plan.time_period \notin PlannedPeriods
    /\ Len(plan.t_array) = 2
    /\ \E i, j \in 1..2 :
          /\ (plan.t_bnds_array[i][2] - plan.t_bnds_array[i][1]) % 2 = 1
          /\ (plan.t_bnds_array[j][2] - plan.t_bnds_array[j][1]) % 2 = 0
          /\ plan.t_bnds_array[j][2] > plan.t_bnds_array[j][1]

\* C15: when the time ranges of the request are empty, for a planned period
\* or for the granules found, opening raises and builds nothing of the store.
C15_NoTimeRangesNoStore ==
    (plan.time_period # "" /\ plan.time_ranges = <<>>)
        => /\ plan.exc = "ValueError"
           /\ plan.t_array = <<>>
           /\ plan.t_bnds_array = <<>>

\* an opening for which no granule was found
C15_Witness ==
    /\ plan.time_period = "satellite-orbit-frequency"
    /\ plan.time_ranges = <<>>
    /\ plan.exc = "ValueError"

-----------------------------------------------------------------------------
(* Properties of the chunk planner.                                        *)

\* C8: the planned chunk shape c of a variable has at most 1,000,000
\* elements, or as many elements as the variable.
C8_ChunkWithinBudgetOrWhole ==
    chunking.planned
        => \/ Prod(chunking.chunk_sizes) <= MaxChunkElements
           \/ Prod(chunking.chunk_sizes) = Prod(chunking.sizes)

-----------------------------------------------------------------------------
(* Properties of the hyperslab.                                            *)

\* the 1-based position of a dimension among the axes of a variable
AxisOf(dimensions, name) == CHOOSE a \in 1..Len(dimensions) : dimensions[a] = name

-----------------------------------------------------------------------------
(* Properties of the bbox.                                                 *)

\* the values v of a coordinate with lo <= v <= hi, in the order of the file
Inside(coord_data, lo, hi) ==
    LET In(v) == lo <= v /\ v <= hi
    IN  SelectSeq(coord_data, In)

\* C10: with a bbox, the cube exposes exactly the latitudes v with
\* lat_min <= v <= lat_max and the longitudes v with lon_min <= v <= lon_max,
\* whether the coordinate of the file ascends or descends.
C10_BboxKeepsTheValuesInside ==
    trim.done
        => /\ trim.lat_adjusted.data = Inside(trim.lat, trim.bbox[2], trim.bbox[4])
           /\ trim.lon_adjusted.data = Inside(trim.lon, trim.bbox[1], trim.bbox[3])

\* C11: when the latitudes of the file descend, the latitudes the cube
\* opened with a bbox exposes ascend.
C11_FlippedLatitudeExposedAscending ==
    (trim.done /\ Len(trim.lat) > 1 /\ trim.lat[1] > trim.lat[Len(trim.lat)])
        => \A i \in 1..(Len(trim.lat_adjusted.data) - 1) :
              trim.lat_adjusted.data[i] < trim.lat_adjusted.data[i + 1]

-----------------------------------------------------------------------------
(* Properties of get_response.                                             *)

\* the last response of the call in progress or just ended
LastStatus == IF http.log = <<>> THEN 0 ELSE http.log[Len(http.log)].status

\* C12 as stated: a 200 ends the call with that response, a 5xx is followed
\* at once by another request for the same URL, and any other status but
\* 429 ends the call as a failure with no further request.
C12_ServerErrorAlwaysRetried ==
    /\ LastStatus = 200 => http.pc = "done" /\ http.result = "resp"
    /\ LastStatus \in {500, 503} => http.pc = "request" /\ http.sleeps = 0
    /\ LastStatus = 404 => http.pc = "done" /\ http.result = "None"
    /\ \A k \in 1..Len(http.log) : http.log[k].url = http.url

\* C12: the same, the 5xx being followed by another request as long as
\* fewer than num_retries requests were made, and ending the call as a
\* failure when it answers the last of them.
C12_ServerErrorRetriedWhileTriesLeft ==
    /\ LastStatus = 200 => http.pc = "done" /\ http.result = "resp"
    /\ LastStatus \in {500, 503} /\ Len(http.log) < http.num_retries
          => http.pc = "request" /\ http.sleeps = 0
    /\ LastStatus \in {500, 503} /\ Len(http.log) >= http.num_retries
          => http.pc = "done" /\ http.result = "None"
    /\ LastStatus = 404 => http.pc = "done" /\ http.result = "None"
    /\ \A k \in 1..Len(http.log) : http.log[k].url = http.url

\* a call that was answered 500, then asked again and was answered 200
C12_Witness ==
    /\ Len(http.log) = 2
    /\ http.log[1].status = 500
    /\ http.log[2].status = 200
    /\ http.result = "resp"

\* C13: a call that has ended made its first request and at most
\* num_retries more.
C13_InitialRequestThenAtMostNRetries ==
    http.pc = "done" => Len(http.log) >= 1 /\ Len(http.log) <= 1 + http.num_retries

\* C14: after a 429 the client waits and asks again.
C14_TooManyRequestsWaitsAndRetries ==
    LastStatus = 429
        => /\ http.exc = ""
           /\ http.sleeps >= 1
           /\ (http.pc = "request" \/ Len(http.log) >= http.num_retries)

-----------------------------------------------------------------------------
(* Properties of the opening of a dataset.                                 *)

\* C16: a dataset without temporal coverage in its metadata, opened without
\* a time range over a catalogue that has granules, opens, and its default
\* time range is the start of the first and the end of the last granule of
\* the index.
C16_DefaultTimeRangeFromGranules ==
    (opening.pc = "done" /\ opening.metadata = <<>> /\ opening.time_range = <<>>
        /\ server.catalogue # <<>>)
        => /\ opening.exc = ""
           /\ features # <<>>
           /\ opening.default = <<Strftime(features[1][1]),
                                  Strftime(features[Len(features)][2])>>

-----------------------------------------------------------------------------

\* two clients of one server: the description document lists the first DRS
\* ids, none, or all; each exclusion list names at most one id, and the
\* cube-ready client appends the non-cube list to the exclusion list
InitCatalog ==
    /\ StoreIdle /\ IndexIdle /\ PlanInit /\ ChunkingInit /\ SlabInit /\ TrimInit /\ InstallInit /\ DescribedInit
    /\ http = NoGet /\ opening = NoOpening /\ pager = NoPager
    /\ \E n \in 0..Len(DrsIds),
          excluded \in {<<>>, <<DrsIds[1]>>},
          non_cube \in {<<>>, <<DrsIds[2]>>, <<DrsIds[4]>>} :
          catalog = [NoCatalog EXCEPT
              !.odd = SubSeq(DrsIds, 1, n),
              !.clients["dataset"].excluded = excluded,
              !.clients["cube"].excluded = excluded \o non_cube]

NextCatalog ==
    \E k \in {"dataset", "cube"} :
        \/ \E catalogue \in {<<"OC", "SST">>, <<"SST", "OC">>} : DatasetNames(k, catalogue)
        \/ \E i \in 1..Len(DrsIds) : EnsureInDataSources(k, DrsIds[i])
        \/ \E catalogue \in {<<"OC", "SST">>, <<"SST", "OC">>},
              ecv \in {"None", "OC"},
              frequency \in {"None", "mon", "month"},
              product_version \in {<<>>, <<"1", ".", "0">>} :
              Search(k, catalogue, ecv, frequency, product_version)

SpecCatalog == InitCatalog /\ [][NextCatalog]_vars

\* the metadata of the datasets: the cube-ready client describes and opens
\* datasets, excluded ones among them
InitMetadata == InitCatalog

NextMetadata ==
    \E i \in 1..Len(DrsIds) :
        \/ GetDatasetMetadata("cube", DrsIds[i])
        \/ EnsureInDataSources("cube", DrsIds[i])

SpecMetadata == InitMetadata /\ [][NextMetadata]_vars

\* the ids a client must not show: those of its exclusion list
ExcludedFree(k) ==
    \A i \in 1..Len(catalog.clients[k].excluded) :
        /\ ~InSeq(catalog.clients[k].excluded[i], catalog.clients[k].names)
        /\ ~InSeq(catalog.clients[k].excluded[i], catalog.clients[k].data_sources)

\* C17: dataset_names never contains a DRS id of the exclusion list and no
\* catalogue entry is installed for such an id; for the cube-ready client
\* the same holds for the ids of the non-cube list; and the names of the
\* cube-ready client are names of the unrestricted client, once both have
\* read their dataset_names.
C17_ExcludedNeverListedNorInstalled ==
    /\ ExcludedFree("dataset")
    /\ ExcludedFree("cube")
    /\ catalog.clients["dataset"].named /\ catalog.clients["cube"].named
        => \A i \in 1..Len(catalog.clients["cube"].names) :
              InSeq(catalog.clients["cube"].names[i], catalog.clients["dataset"].names)


\* the place of a name in the dataset_names of the client of the last call
NameIndex(dataset_name) ==
    CHOOSE i \in 1..Len(catalog.clients[catalog.call.client].names) :
        catalog.clients[catalog.call.client].names[i] = dataset_name

-----------------------------------------------------------------------------

\* paginated queries, one after the other, over totals of up to MaxPages
\* pages: none, one feature, full pages, and full pages and one feature
InitPager ==
    /\ StoreIdle /\ IndexIdle /\ PlanInit /\ ChunkingInit /\ SlabInit /\ TrimInit /\ InstallInit /\ DescribedInit
    /\ ClientIdle

NextPager ==
    \/ \E total \in {0, 1} \cup {k * maximum_records : k \in 1..(MaxPages - 1)}
                           \cup {k * maximum_records + 1 : k \in 1..(MaxPages - 1)} :
          FetchOpensearchFeatureList(total)
    \/ \E resp \in BOOLEAN : FirstPageArrives(resp)
    \/ GatherTasks
    \/ RequestPage
    \/ \E start_page \in 2..(MaxPages + 1), resp \in BOOLEAN : PageArrives(start_page, resp)

SpecPager == InitPager /\ [][NextPager]_vars

\* every request is answered, with a page or with None (get_response ends),
\* and the event loop runs the tasks that are ready
SpecPagerFair ==
    /\ SpecPager
    /\ WF_vars(\E resp \in BOOLEAN : FirstPageArrives(resp))
    /\ WF_vars(GatherTasks)
    /\ WF_vars(RequestPage)
    /\ WF_vars(\E start_page \in 2..(MaxPages + 1), resp \in BOOLEAN : PageArrives(start_page, resp))

\* ceil(T / P), and 1 when there is no result
LastPage(T) ==
    IF T <= maximum_records THEN 1 ELSE (T + maximum_records - 1) \div maximum_records

\* C19: when the first page reports totalResults = T, the paginator requests
\* page 1 first and then the pages 2..ceil(T / maximum_records), each once
\* and no other, so only page 1 when T is at most maximum_records; the
\* pages passed to the extender are the pages that were returned; and every
\* query that was started ends.
C19_PagesOneToLastEachOnce ==
    /\ [](/\ pager.pc # "idle" => pager.requested[1] = 1
          /\ \A i \in 1..Len(pager.requested) : \A j \in 1..Len(pager.requested) :
                pager.requested[i] = pager.requested[j] => i = j
          /\ pager.extended = pager.returned
          /\ pager.pc = "done" /\ pager.exc = ""
                => {pager.requested[i] : i \in 1..Len(pager.requested)}
                     = 1..LastPage(pager.total_results))
    /\ (pager.pc \in {"first", "loop"} ~> pager.pc = "done")

\* a query of MaxPages pages that ended, with a page that was not returned
C19_Witness ==
    /\ pager.pc = "done"
    /\ pager.total_results = (MaxPages - 1) * maximum_records + 1
    /\ Len(pager.requested) = MaxPages
    /\ pager.extended # 1..MaxPages

\* C20: at most 4 page fetches are in flight at any time, and no page after
\* the first is requested or planned before the totalResults of the first
\* page is known.
C20_AtMostFourInFlightAfterFirstPage ==
    /\ Cardinality(pager.in_flight) <= 4
    /\ pager.total_results < 0
        => /\ pager.pending = {}
           /\ pager.in_flight \subseteq {1}
           /\ Len(pager.requested) <= 1

\* four pages in flight at once
C20_Witness ==
    /\ Cardinality(pager.in_flight) = 4
    /\ pager.total_results >= 0

-----------------------------------------------------------------------------
(* Further properties of the time-range planner.                           *)

-----------------------------------------------------------------------------
(* Further properties of the store.                                        *)

\* C22: when a chunk key of a remote variable that is not in the VFS is
\* looked up by __contains__ or __getitem__ and its index lies within the
\* chunk range of the variable, then after the lookup the VFS holds, for
\* every variable of that chunk range, the key of that index with the
\* handle (that variable, that index), and the index is no longer pending;
\* a key whose index lies outside the chunk range is not added and is
\* reported as absent.
C22_LookupBuildsEntriesOfChunkRange ==
    [][pc = "idle" /\ ret'.op \in {"contains", "getitem"}
        => LET key == ret'.key
           IN  /\ key \notin DOMAIN vfs
               /\ Len(key) = 2
               /\ key[1][1] \in RemoteNames
               /\ \A i \in 1..Len(key[2]) : key[2][i] \in DOMAIN IntTokens
               => LET chunk_indexes == [i \in 1..Len(key[2]) |-> IntTokens[key[2][i]]]
                      ranges        == VarNameToRanges(key[1][1])
                      var_names     == RangesToVarNames(ranges)
                  IN  IF /\ Len(chunk_indexes) = Len(ranges)
                         /\ \A i \in 1..Len(ranges) : chunk_indexes[i] < ranges[i]
                      THEN /\ \A j \in 1..Len(var_names) :
                                 /\ ChunkKey(var_names[j], key[2]) \in DOMAIN vfs'
                                 /\ vfs'[ChunkKey(var_names[j], key[2])]
                                      = Handle(var_names[j], chunk_indexes)
                           /\ ~InSeq(chunk_indexes, ranges_to_indexes'[ranges])
                      ELSE /\ key \notin DOMAIN vfs'
                           /\ \/ ret' = Returned("contains", key, BoolValue(FALSE))
                              \/ ret' = Raised("getitem", key, "KeyError")]_vars


\* C26: no operation removes a key from the VFS or changes the value under
\* a key that is there: not keys, listdir, len, __contains__, __getitem__,
\* nor a chunk fetch that succeeds or fails; so a chunk key that holds a
\* handle holds the same handle ever after, and never the fetched bytes.
C26_ReadsKeepTheEntriesOfTheVfs ==
    [][\A k \in DOMAIN vfs : k \in DOMAIN vfs' /\ vfs'[k] = vfs[k]]_vars

\* a chunk was fetched and returned, and its key still holds the handle
C26_Witness ==
    /\ ret.op = "getitem" /\ ret.kind = "return" /\ ret.val.kind = "chunk"
    /\ ret.key \in DOMAIN vfs
    /\ vfs[ret.key].kind = "handle"


\* the keys of the namespace of the store: the keys written at construction
\* and the chunk keys of the remote arrays whose index is in range
InNamespace(key) ==
    \/ key \in InitialKeys
    \/ /\ Len(key) = 2
       /\ key[1][1] \in RemoteNames
       /\ \A i \in 1..Len(key[2]) : key[2][i] \in DOMAIN IntTokens
       /\ Len(key[2]) = Len(VarNameToRanges(key[1][1]))
       /\ \A i \in 1..Len(key[2]) : IntTokens[key[2][i]] < VarNameToRanges(key[1][1])[i]

\* C28: key in store never raises; it returns True for a key of the
\* namespace of the store and False for any other key, such as a key of an
\* unknown variable or a key with more than one '/'.
C28_ContainsNeverRaises ==
    ret.op = "contains"
        => /\ ret.kind = "return"
           /\ ret.val = BoolValue(InNamespace(ret.key))

\* C29: len(store) is the number of keys that iterating the store yields,
\* in every state, and no keys, __contains__, __getitem__, listdir or len
\* call changes it.
C29_LenIsTheNumberOfKeys ==
    /\ [](StoreLen = Cardinality(DOMAIN BuildMissingVfsEntries))
    /\ [][StoreLen' = StoreLen]_vars

-----------------------------------------------------------------------------
(* Further properties of the chunk planner.                                *)

\* C27: the chunk indexes a remote array can be asked for cover the array:
\* on each axis they run from 0 to ceil(size / chunk) - 1 for the planned
\* chunk size, also when the chunk size does not divide the size of the
\* axis.
C27_ChunkIndexesCoverTheArray ==
    chunking.planned
        => \A i \in 1..Len(chunking.sizes) :
              Nums(chunking.sizes, chunking.chunk_sizes)[i]
                 = (chunking.sizes[i] + chunking.chunk_sizes[i] - 1) \div chunking.chunk_sizes[i]


\* the valid chunk sizes of the axes of the variable that was planned
ValidSizesOfAxis(i) ==
    LET valid == ValidChunkSizes(chunking.chunks, chunking.sizes, chunking.time_dimension, i - 1)
    IN  {valid[j] : j \in 1..Len(valid)}

\* the combinations of valid chunk sizes within the budget
FittingCombinations ==
    {c \in [1..Len(chunking.sizes) -> UNION {ValidSizesOfAxis(i) : i \in 1..Len(chunking.sizes)}] :
        /\ \A i \in 1..Len(chunking.sizes) : c[i] \in ValidSizesOfAxis(i)
        /\ Prod(c) <= MaxChunkElements}

\* the largest chunk size of a combination on the axes other than time
LargestNonTime(c) ==
    LET others == {c[i] : i \in (1..Len(c)) \ {chunking.time_dimension + 1}} \cup {0}
    IN  CHOOSE m \in others : \A x \in others : x <= m

\* the planner had to search: the array with the time axis at its file
\* chunk size is not below the budget
PlannerSearched ==
    /\ chunking.planned
    /\ Len(chunking.sizes) > 0
    /\ (Prod(chunking.sizes) \div chunking.sizes[chunking.time_dimension + 1])
          * chunking.chunks[chunking.time_dimension + 1] >= MaxChunkElements

\* C30: when the array with the time axis at its file chunk size exceeds the
\* budget and some combination of valid chunk sizes is within the budget,
\* the planner returns such a combination of the largest product, and among
\* those of that product one whose largest chunk size outside the time axis
\* is smallest.
C30_BestCombinationWithinBudget ==
    PlannerSearched /\ FittingCombinations # {}
        => /\ chunking.chunk_sizes \in FittingCombinations
           /\ \A c \in FittingCombinations :
                 /\ Prod(c) <= Prod(chunking.chunk_sizes)
                 /\ Prod(c) = Prod(chunking.chunk_sizes)
                      => LargestNonTime(chunking.chunk_sizes) <= LargestNonTime(c)

\* a search with two combinations of the largest product, told apart by
\* their largest chunk size
C30_Witness ==
    /\ PlannerSearched
    /\ \E c \in FittingCombinations :
          /\ Prod(c) = Prod(chunking.chunk_sizes)
          /\ LargestNonTime(c) > LargestNonTime(chunking.chunk_sizes)


-----------------------------------------------------------------------------
(* Further properties of the granule index.                                *)

\* the date ranges requested so far, the last request included
Requested ==
    IF queries = 0 THEN {} ELSE answer.before \cup {<<answer.start_date, answer.end_date>>}

\* the span from the earliest start to the latest end requested so far
RequestedFrom == CHOOSE t \in {q[1] : q \in Requested} : \A q \in Requested : t <= q[1]

RequestedTo == CHOOSE t \in {q[2] : q \in Requested} : \A q \in Requested : t >= q[2]

\* C23: over any sequence of queries the granule index only grows at its two
\* ends: the granules indexed before a query are, after it, a contiguous part
\* of the index in the same order, with new granules before the first or
\* after the last of them only; and every indexed granule lies in the span of
\* time that the queries made so far have requested.
C23_IndexGrowsAtItsEndsWithinRequests ==
    /\ [][\E i \in 0..(Len(features') - Len(features)) :
             SubSeq(features', i + 1, i + Len(features)) = features]_vars
    /\ [](\A i \in 1..Len(features) :
             /\ Requested # {}
             /\ features[i][1] <= RequestedTo
             /\ features[i][2] >= RequestedFrom)

\* C24: a query whose date range lies within the range of an earlier query
\* is answered from the index, without a request to the OpenSearch service.
C24_QueryInsideRequestedRangeIssuesNoRequest ==
    (/\ queries > 0
     /\ \E q \in answer.before : q[1] <= answer.start_date /\ answer.end_date <= q[2])
        => answer.requests = 0


-----------------------------------------------------------------------------
(* Further properties of the catalogue of a client.                        *)

\* C25: the OpenSearch service is asked for an id only when the client has
\* no record of it, and the dimensions, variable infos and attributes of a
\* dataset are fetched at most once per client: once they were fetched, the
\* record keeps them, whatever is described or opened later.
C25_MetadataFetchedOnceAndKept ==
    /\ [][\A i \in 1..Len(catalog'.call.queried) :
             ~InSeq(catalog'.call.queried[i],
                    catalog.clients[catalog'.call.client].data_sources)]_vars
    /\ [](\A k \in {"dataset", "cube"} :
             /\ catalog.clients[k].again = {}
             /\ catalog.clients[k].fetched \subseteq catalog.clients[k].info
             /\ \A d \in catalog.clients[k].fetched : InSeq(d, catalog.clients[k].data_sources))


\* C31: the planner leaves the chunk size of the time axis at the file chunk
\* size, and on every other axis whose length is a multiple of its file
\* chunk size the chunk size it returns is the length of the axis or a
\* positive multiple of the file chunk size that divides the length.
C31_TimeChunkKeptOthersDivideAxis ==
    chunking.planned
        => /\ Len(chunking.chunk_sizes) = Len(chunking.sizes)
           /\ \A i \in 1..Len(chunking.sizes) :
                 IF i = chunking.time_dimension + 1
                 THEN chunking.chunk_sizes[i] = chunking.chunks[i]
                 ELSE chunking.sizes[i] % chunking.chunks[i] = 0
                        => \/ chunking.chunk_sizes[i] = chunking.sizes[i]
                           \/ /\ chunking.chunk_sizes[i] > 0
                              /\ chunking.chunk_sizes[i] % chunking.chunks[i] = 0
                              /\ chunking.sizes[i] % chunking.chunk_sizes[i] = 0

\* the planner searched and chose, on an axis other than time, a chunk size
\* between the file chunk size and the length of the axis, with a time axis
\* of more steps than its file chunk holds
C31_Witness ==
    /\ PlannerSearched
    /\ chunking.sizes[chunking.time_dimension + 1] > chunking.chunks[chunking.time_dimension + 1]
    /\ \E i \in (1..Len(chunking.sizes)) \ {chunking.time_dimension + 1} :
          /\ chunking.chunk_sizes[i] > chunking.chunks[i]
          /\ chunking.chunk_sizes[i] < chunking.sizes[i]


-----------------------------------------------------------------------------
(* Properties of the variables and coordinates of a store.                 *)

\* C32: every data variable that becomes an array of the store reports time
\* as its first dimension, with one size and one chunk size per dimension;
\* a variable without a time dimension has time put before its dimensions,
\* with the chunk size 1.
C32_TimeIsFirstDimension ==
    (install.op = "variable" /\ install.result.kind = "remote")
        => LET layout == install.result.layout
           IN  /\ Len(layout.dimensions) > 0
               /\ layout.dimensions[1] = "time"
               /\ Len(layout.shape) = Len(layout.dimensions)
               /\ Len(layout.chunk_sizes) = Len(layout.dimensions)
               /\ \A i \in 1..Len(layout.dimensions) :
                     layout.shape[i] = install.input.sizes[layout.dimensions[i]]
               /\ ~InSeq("time", install.input.dimensions)
                     => /\ layout.chunk_sizes[1] = 1
                        /\ Tail(layout.dimensions) = install.input.dimensions

\* C33: a coordinate for which no values were fetched becomes a remote array
\* of the store.
C33_CoordinateWithoutValuesIsRemote ==
    (install.op = "coordinate" /\ install.input.data = 0)
        => install.result.exc = "" /\ install.result.kind = "remote"

\* C36: a variable of strings without grid mapping whose number of elements
\* is below 512 * 512 becomes a global attribute and no array.
C36_ShortStringBecomesAttribute ==
    (/\ install.op = "variable"
     /\ install.input.data_type = "bytes1024"
     /\ ~install.input.grid_mapping_name
     /\ Prod([i \in 1..Len(install.input.dimensions) |->
                 install.input.sizes[install.input.dimensions[i]]]) < MaxStaticSize)
        => install.result.kind = "attribute"

\* C37: for every variable of a resolved dataset, each of its dimensions has
\* in the dimensions of the dataset a positive length, the length of that
\* axis, so that the shape made of them has one entry per dimension and the
\* size of the variable as its product.
C37_DimensionsHoldAxisLengths ==
    install.op = "dimensions"
        => \A v \in 1..Len(install.input) :
              LET dimensions == FileVariables[install.input[v]]
              IN  /\ \A i \in 1..Len(dimensions) :
                        /\ dimensions[i] \in DOMAIN install.result
                        /\ install.result[dimensions[i]] > 0
                        /\ install.result[dimensions[i]] = FileAxes[dimensions[i]]
                  /\ Prod([i \in 1..Len(dimensions) |-> install.result[dimensions[i]]])
                       = FileSize(install.input[v])


-----------------------------------------------------------------------------
(* Further properties of the paginator.                                    *)

\* C34: when a page request of a query got no response, the query ends with
\* an error: it never ends normally with the features of only some of its
\* pages.
C34_FailedPageFailsTheQuery ==
    (/\ pager.pc = "done"
     /\ \E i \in 1..Len(pager.requested) : pager.requested[i] \notin pager.returned)
        => pager.exc # ""


-----------------------------------------------------------------------------
(* Further properties of the opening of a dataset.                         *)

\* C35: when the caller gives a time range, the opening does not depend on
\* the default time range of the dataset: nothing is raised while a default
\* is determined, with or without temporal coverage in the metadata, and
\* the granules are requested for the time range given.
C35_TimeRangeGivenNeedsNoDefault ==
    (opening.pc # "idle" /\ opening.time_range # <<>>)
        => /\ opening.request # <<>>
           /\ opening.request[1] = Strptime(opening.time_range[1]).value


-----------------------------------------------------------------------------
(* Further properties of get_response.                                     *)

\* C38: a call of get_response never changes the retry parameters of the
\* client: during and after a call, 429 responses included, the retry
\* count, the backoff ceiling and the backoff base are those the client had
\* when the call began, and the call starts from that ceiling.
C38_RetryParametersKept ==
    http.pc # "idle"
        => /\ http.client = http.configured
           /\ http.i = 0 => http.retry_backoff_max = http.configured.retry_backoff_max
           /\ http.num_retries = http.configured.num_retries

\* a call was answered 503 and then 429 and has ended
C38_Witness ==
    /\ http.pc = "done"
    /\ Len(http.log) >= 2
    /\ http.log[Len(http.log) - 1].status = 503
    /\ http.log[Len(http.log)].status = 429


-----------------------------------------------------------------------------
(* Properties of the temporal resolution of a data id.                     *)

\* C39: _get_temporal_resolution_from_id maps the frequency of a data id to
\* a period: day to 1D, N-days to ND, mon and month to 1M, N-months to NM,
\* yr and year to 1Y, N-yrs to NY, and to None a frequency without a fixed
\* period such as climatology.
C39_FrequencyToPeriod ==
    described.data_id # <<>>
        => LET f == described.data_id[3]
               r == described.temporal_resolution
           IN  /\ f = <<"d","a","y">> => r = <<"1","D">>
               /\ f \in {<<"m","o","n">>, <<"m","o","n","t","h">>} => r = <<"1","M">>
               /\ f \in {<<"y","r">>, <<"y","e","a","r">>} => r = <<"1","Y">>
               /\ \A count \in Counts \ {<<>>} :
                     /\ f = Frequency(count, <<"d","a","y","s">>) => r = count \o <<"D">>
                     /\ f = Frequency(count, <<"m","o","n","t","h","s">>) => r = count \o <<"M">>
                     /\ f = Frequency(count, <<"y","r","s">>) => r = count \o <<"Y">>
               /\ f \in {<<"c","l","i","m","a","t","o","l","o","g","y">>,
                         <<"s","a","t","e","l","l","i","t","e","-","o","r","b","i","t","-",
                           "f","r","e","q","u","e","n","c","y">>}
                     => r = <<>>

\* the id of a climatology was given a period of one month
C39_ClimatologyGivenAMonth ==
    /\ described.data_id # <<>>
    /\ described.data_id[3] = <<"c","l","i","m","a","t","o","l","o","g","y">>
    /\ described.temporal_resolution = <<"1","M">>

=============================================================================
